---- MODULE Spec2Model ----
(***************************************************************************)
(* Fraud detection system: the detector framework (backend/services/      *)
(* detectors), the Case Store (backend/database/db_context.py) and the     *)
(* orchestration driver (backend/api/main.py).                             *)
(*                                                                         *)
(* Conventions.                                                            *)
(*  - Python's Optional[X] is a sequence of length 0 (None) or 1.          *)
(*  - A datetime is a number of hours since an epoch whose day 0 is a      *)
(*    Monday; a raw Firebird date field is a record with a tag.            *)
(*  - A dict is a sequence of [key, value] entries in insertion order.     *)
(*  - Amounts and quantities are whole numbers; a nullable numeric column  *)
(*    is an Optional; a NULL client code is the empty string.              *)
(***************************************************************************)
EXTENDS Integers, Sequences, FiniteSets, TLC

VARIABLES
    detectors,           \* DetectorFactory._detectors: the registered kinds, in dict order
    enabled_by_default,  \* kind -> the detector class's enabled_by_default flag
    DESP,                \* Firebird table of fuel dispatches
    DCTO,                \* Firebird table of documents (invoices)
    XDCTO,               \* Firebird table of document edits
    now,                 \* the wall clock, in hours
    fraud_cases,         \* SQL Server table fraud_cases, in insertion order
    audit_logs,          \* SQL Server table audit_logs, in insertion order
    next_id,             \* the identity counter of fraud_cases.id
    active_connections,  \* ConnectionManager.active_connections (their number)
    notifications,       \* every message handed to ConnectionManager.broadcast
    task,                \* the coroutines of the event loop and their locals
    holder,              \* the coroutine that is running and has not awaited yet
    faults,              \* number of failures injected so far
    runs                 \* number of detection runs started so far

vars == <<detectors, enabled_by_default, DESP, DCTO, XDCTO, now, fraud_cases,
          audit_logs, next_id, active_connections, notifications, task, holder,
          faults, runs>>

(***************************************************************************)
(* Bounds of the model.                                                    *)
(***************************************************************************)
MaxRuns == 2          \* detection runs started in one behaviour
MaxFaults == 1        \* failures injected in one behaviour
MaxConnections == 1   \* WebSocket subscribers connected at once
MaxTicks == 1         \* hours the clock advances in one behaviour
MaxRequestLen == 2    \* length of DetectorRunRequest.detector_types
MaxUpdates == 1       \* successful status updates in one behaviour

(***************************************************************************)
(* models/fraud_models.py: the enumerations.                               *)
(***************************************************************************)
INVOICE_ANOMALY == "ANOMALIA_FACTURA"
FUEL_THEFT == "ROBO_COMBUSTIBLE"
DATA_MANIPULATION == "MANIPULACION_DATOS"
ROUND_AMOUNT == "MONTO_REDONDO"
AFTERHOURS == "FUERA_HORARIO"
SEQUENCE_GAP == "SECUENCIA_FALTANTE"

MEDIUM == "MEDIO"
HIGH == "ALTO"

PENDING == "PENDIENTE"
CONFIRMED == "CONFIRMADO"
INVESTIGATING == "INVESTIGANDO"

\* The detector classes found by DetectorFactory._load_detectors.
DetectorClasses == {INVOICE_ANOMALY, FUEL_THEFT, DATA_MANIPULATION}

\* A kind no detector class declares, as a caller may request it.
UnknownKind == "TIPO_DESCONOCIDO"

(***************************************************************************)
(* Sequence helpers.                                                       *)
(***************************************************************************)
Front(s) == SubSeq(s, 1, Len(s) - 1)
Last(s) == s[Len(s)]
Take(s, n) == SubSeq(s, 1, IF n < Len(s) THEN n ELSE Len(s))

RECURSIVE Concat(_)
Concat(ss) ==
    IF ss = <<>> THEN <<>>
    ELSE IF Len(ss) = 1 THEN ss[1]
    ELSE LET half == Len(ss) \div 2
         IN  Concat(SubSeq(ss, 1, half)) \o Concat(SubSeq(ss, half + 1, Len(ss)))

RECURSIVE SumSeq(_)
SumSeq(s) == IF s = <<>> THEN 0 ELSE SumSeq(Front(s)) + Last(s)

\* The distinct elements of s in the order of their first occurrence: the
\* key order of a dict filled by iterating s.
KeysInOrder(s) ==
    LET IsFirst(i) == \A j \in 1..(i - 1) : s[j] # s[i]
        firsts == SelectSeq([i \in 1..Len(s) |-> i], IsFirst)
    IN  [k \in 1..Len(firsts) |-> s[firsts[k]]]

(***************************************************************************)
(* Dates.                                                                  *)
(***************************************************************************)
DateTime(day, hour) == [tag |-> "datetime", ts |-> day * 24 + hour]
NullDate == [tag |-> "null"]

DateOf(ts) == ts \div 24            \* datetime.date()
HourOf(ts) == ts % 24               \* datetime.hour
Weekday(ts) == (ts \div 24) % 7     \* datetime.weekday(): 0 = Monday .. 6 = Sunday
IsoDate(day) == ToString(day)       \* str(date): one text per calendar day

\* A datetime.date: the DATE of a calendar day.
DateOnly(day) == [tag |-> "date", day |-> day]

\* A date the client library returns as text: the layout of the text and
\* the numbers written in it.  The layouts are "d/m/Y H:M:S", "d/m/Y",
\* "Y-m-d H:M:S", "Y-m-d", "Y-m-d H:M:S.f" (with a fraction of a second
\* after 19 characters) and "d.m.Y H:M:S".
Text(layout, day, month, year, hour, minute, second) ==
    [tag |-> "text", layout |-> layout, day |-> day, month |-> month, year |-> year,
     hour |-> hour, minute |-> minute, second |-> second]

\* The proleptic Gregorian calendar of datetime.
IsLeap(year) == year % 4 = 0 /\ (year % 100 # 0 \/ year % 400 = 0)
DaysInMonth(year, month) ==
    IF month = 2 THEN (IF IsLeap(year) THEN 29 ELSE 28)
    ELSE IF month \in {4, 6, 9, 11} THEN 30 ELSE 31
DaysBeforeMonth(year, month) == SumSeq([m \in 1..(month - 1) |-> DaysInMonth(year, m)])
Ordinal(year, month, day) ==
    LET y == year - 1
    IN  y * 365 + (y \div 4) - (y \div 100) + (y \div 400) + DaysBeforeMonth(year, month) + day

\* Day 0 of the model's clock is Monday 30 December 2024, so that day 40
\* (Clock0) is Saturday 8 February 2025.
DayNumber(year, month, day) == Ordinal(year, month, day) - Ordinal(2024, 12, 30)

\* datetime.strptime accepts the numbers of a text: they name a calendar
\* day and a time of day.
IsCalendarDate(t) ==
    /\ t.year \in 1..9999 /\ t.month \in 1..12
    /\ t.day >= 1 /\ t.day <= DaysInMonth(t.year, t.month)
    /\ t.hour \in 0..23 /\ t.minute \in 0..59 /\ t.second \in 0..59

\* The layouts one of the four formats of parse_firebird_date matches, the
\* text being cut to 19 characters first.
ParsedLayouts == {"d/m/Y H:M:S", "Y-m-d H:M:S", "d/m/Y", "Y-m-d", "Y-m-d H:M:S.f"}

\* BaseDetector.parse_firebird_date: None stays None, a native datetime is
\* returned as it is, a date becomes midnight of its day, a text is tried
\* against the four formats and becomes None when none of them accepts it.
parse_firebird_date(date_value) ==
    CASE date_value.tag = "datetime" -> <<date_value.ts>>
      [] date_value.tag = "date" -> <<date_value.day * 24>>
      [] date_value.tag = "text" ->
            IF date_value.layout \in ParsedLayouts /\ IsCalendarDate(date_value)
            THEN <<DayNumber(date_value.year, date_value.month, date_value.day) * 24 + date_value.hour>>
            ELSE <<>>
      [] OTHER -> <<>>

\* The timestamp the source database compares in a date condition of a
\* query: a column value that names a calendar day is compared as that
\* day and time, whatever text the client library makes of it; NULL and a
\* text that names no calendar day satisfy no comparison.
SqlTimestamp(date_value) ==
    CASE date_value.tag = "datetime" -> <<date_value.ts>>
      [] date_value.tag = "date" -> <<date_value.day * 24>>
      [] date_value.tag = "text" ->
            IF IsCalendarDate(date_value)
            THEN <<DayNumber(date_value.year, date_value.month, date_value.day) * 24 + date_value.hour>>
            ELSE <<>>
      [] OTHER -> <<>>

(***************************************************************************)
(* Python float: IEEE 754 binary64, round to nearest, ties to even.       *)
(* A non-negative float below 2^30 is its integer part and its fraction,   *)
(* the fraction in units of 2^-75 as five digits of 15 bits, least         *)
(* significant first (<<>> when the float is a whole number).  Exact       *)
(* intermediate results are sequences of such digits.                      *)
(***************************************************************************)
Base == 2^15
FracDigits == 4 + 1
GuardDigits == 3 + 1
Precision == 53

\* F(x) and F(x, y), with the arguments evaluated once.
With(x, F(_)) == CHOOSE r \in {F(v) : v \in {x}} : TRUE
With2(x, y, F(_, _)) == CHOOSE r \in {F(v[1], v[2]) : v \in {<<x, y>>}} : TRUE

\* The sequence f(1), ..., f(n).
Tuple(f, n) == SubSeq(f, 1, n)

Zeros(n) == Tuple([i \in 1..n |-> 0], n)

\* A database NUMERIC value with two decimals: units and hundredths.
Dec(units, cents) == [units |-> units, cents |-> cents]

\* SQL comparison of a NUMERIC column with an integer literal.
DecGt(x, n) == x.units > n \/ (x.units = n /\ x.cents > 0)

FloatOfInt(n) == [int |-> n, frac |-> <<>>]

\* The digits of a float, padded to len digits.
ToDigits(x, len) ==
    (IF x.frac = <<>> THEN Zeros(FracDigits) ELSE x.frac)
        \o <<x.int % Base, x.int \div Base>> \o Zeros(len - FracDigits - 2)

FromDigits(K) ==
    With(K, LAMBDA d :
        [int |-> d[FracDigits + 1] + Base * d[FracDigits + 2],
         frac |-> IF SubSeq(d, 1, FracDigits) = Zeros(FracDigits) THEN <<>> ELSE SubSeq(d, 1, FracDigits)])

\* Comparison of two digit sequences of one length: -1, 0 or 1.
BigCmp(A, B) ==
    With2(A, B, LAMBDA a, b :
        With({i \in 1..Len(a) : a[i] # b[i]}, LAMBDA diff :
            IF diff = {} THEN 0
            ELSE With(CHOOSE i \in diff : \A j \in diff : j <= i, LAMBDA top :
                     IF a[top] > b[top] THEN 1 ELSE -1)))

\* Sum of two digit sequences of one length (the last digit has headroom).
BigAdd(A, B) ==
    With2(A, B, LAMBDA a, b :
        With(Tuple([i \in 1..Len(a) |-> a[i] + b[i]], Len(a)), LAMBDA s :
            Tuple([i \in 1..Len(s) |->
                      (s[i] + IF \E k \in 1..(i - 1) : s[k] >= Base /\ \A l \in (k + 1)..(i - 1) : s[l] = Base - 1
                              THEN 1 ELSE 0) % Base], Len(s))))

\* Product of a digit sequence and a small integer.
BigMulSmall(A, m) ==
    With(A, LAMBDA a :
        BigAdd(Tuple([i \in 1..Len(a) |-> (a[i] * m) % Base], Len(a)),
               Tuple([i \in 1..Len(a) |-> IF i = 1 THEN 0 ELSE (a[i - 1] * m) \div Base], Len(a))))

\* The remainders of the long division of a digit sequence by a small
\* integer, most significant digit first: rems[i] is what is left of the
\* digits i.. of a.
RECURSIVE DivRems(_, _, _, _)
DivRems(a, n, i, rems) ==
    IF i = 0 THEN rems
    ELSE DivRems(a, n, i - 1, <<(rems[1] * Base + a[i]) % n>> \o rems)

\* Quotient, rounded down, and remainder of a digit sequence and a small integer.
BigDivSmall(A, n) ==
    With(A, LAMBDA a :
        With(DivRems(a, n, Len(a), <<0>>), LAMBDA rems :
            [quot |-> Tuple([i \in 1..Len(a) |-> (rems[i + 1] * Base + a[i]) \div n], Len(a)),
             rem |-> rems[1]]))

\* Number of significant bits of a positive digit sequence.
BitLength(K) ==
    With(K, LAMBDA d :
        With(CHOOSE i \in 1..Len(d) : d[i] # 0 /\ \A j \in (i + 1)..Len(d) : d[j] = 0, LAMBDA top :
            15 * (top - 1) + CHOOSE b \in 1..15 : 2^(b - 1) <= d[top] /\ d[top] < 2^b))

\* A positive digit sequence with more than Precision bits, s of them to
\* drop, rounded to nearest, ties to even; sticky says that the exact value
\* has something below the last digit.
RoundAt(d, s, sticky) ==
    With2(s \div 15 + 1, 2^(s % 15), LAMBDA j, pow :
        With2(Tuple([i \in 1..Len(d) |-> IF i < j THEN 0 ELSE IF i = j THEN d[j] - (d[j] % pow) ELSE d[i]], Len(d)),
              BigCmp(Tuple([i \in 1..Len(d) |-> IF i < j THEN d[i] ELSE IF i = j THEN d[j] % pow ELSE 0], Len(d)),
                     Tuple([i \in 1..Len(d) |-> IF i = (s - 1) \div 15 + 1 THEN 2^((s - 1) % 15) ELSE 0], Len(d))),
              LAMBDA trunc, cmp :
                 IF cmp > 0 \/ (cmp = 0 /\ (sticky \/ (d[j] \div pow) % 2 = 1))
                 THEN BigAdd(trunc, Tuple([i \in 1..Len(d) |-> IF i = j THEN pow ELSE 0], Len(d)))
                 ELSE trunc))

\* The exact value K rounded to Precision significant bits.
Round53(K, sticky) ==
    With(K, LAMBDA d :
        IF d = Zeros(Len(d)) THEN d
        ELSE With(BitLength(d) - Precision, LAMBDA s :
                 IF s <= 0 THEN d ELSE RoundAt(d, s, sticky)))

\* float(x / n) for exact digits x and a small integer n.
RoundDiv(K, n) ==
    With(BigDivSmall(Zeros(GuardDigits) \o K, n), LAMBDA q :
        With(Round53(q.quot, q.rem # 0), LAMBDA rounded :
            SubSeq(rounded, GuardDigits + 1, Len(rounded))))

\* float(Decimal): the nearest float to units + cents / 100.
FloatOfDec(x) ==
    IF x.cents = 0 THEN FloatOfInt(x.units)
    ELSE FromDigits(RoundDiv(ToDigits(FloatOfInt(x.units * 100 + x.cents), FracDigits + 3), 100))

\* x + y of two floats.
FAdd(x, y) ==
    With2(x, y, LAMBDA a, b :
        IF a.frac = <<>> /\ b.frac = <<>> THEN FloatOfInt(a.int + b.int)
        ELSE FromDigits(Round53(BigAdd(ToDigits(a, FracDigits + 3), ToDigits(b, FracDigits + 3)), FALSE)))

\* x * m of a float and a small integer.
FMulInt(x, m) ==
    With(x, LAMBDA a :
        IF a.frac = <<>> THEN FloatOfInt(a.int * m)
        ELSE FromDigits(Round53(BigMulSmall(ToDigits(a, FracDigits + 3), m), FALSE)))

\* x / y of two floats, y a whole number below Base.
FDiv(x, y) ==
    With2(x, y, LAMBDA a, b :
        IF a.frac = <<>> /\ a.int % b.int = 0 THEN FloatOfInt(a.int \div b.int)
        ELSE FromDigits(RoundDiv(ToDigits(a, FracDigits + 3), b.int)))

\* x > n of a float and an integer.
FGtInt(x, n) == With(x, LAMBDA a : a.int > n \/ (a.int = n /\ a.frac # <<>>))

\* x % n == 0 of a float and an integer.
FModIsZero(x, n) == With(x, LAMBDA a : a.frac = <<>> /\ a.int % n = 0)

\* sum() of a list of floats, from the left.
RECURSIVE FSum(_)
FSum(s) == IF s = <<>> THEN FloatOfInt(0) ELSE FAdd(FSum(Front(s)), Last(s))

\* BaseDetector.safe_float: None becomes the default 0.0, a number its float.
safe_float(value) == IF value = <<>> THEN FloatOfInt(0) ELSE FloatOfDec(value[1])

\* BaseDetector.safe_divide.
safe_divide(numerator, denominator, default) ==
    IF denominator = FloatOfInt(0) THEN default ELSE FDiv(numerator, denominator)

\* str() of a client code: None prints as "None".
StrOf(code) == IF code = "" THEN "None" ELSE code

(***************************************************************************)
(* Source Data Accessor.                                                   *)
(***************************************************************************)
\* FraudDetectionDbContext.execute_firebird_query: rows are fetched one by
\* one until fetch_size of them were read; `rows` is what the SQL selects.
execute_firebird_query(rows, fetch_size) == Take(rows, fetch_size)

(***************************************************************************)
(* Case Store queries used by the detectors.                               *)
(***************************************************************************)
\* Faulty variant of check_existing_case: the filter compares case_number,
\* not source_record_id, with the record id, so no stored case ever matches.
check_existing_case_WrongColumn(cases, source_table, source_record_id, detector_type, query_fails) ==
    IF query_fails THEN FALSE
    ELSE \E i \in 1..Len(cases) :
            /\ cases[i].source_table = source_table
            /\ cases[i].case_number = source_record_id
            /\ cases[i].detector_type = detector_type

\* Faulty variant of check_existing_case: a failed Case Store query answers
\* True, as if a case existed.
check_existing_case_FailClosed(cases, source_table, source_record_id, detector_type, query_fails) ==
    IF query_fails THEN TRUE
    ELSE \E i \in 1..Len(cases) :
            /\ cases[i].source_table = source_table
            /\ cases[i].source_record_id = source_record_id
            /\ cases[i].detector_type = detector_type

\* BaseDetector.check_existing_case.  query_fails: the Case Store query
\* raises; the except clause answers False.
check_existing_case(cases, source_table, source_record_id, detector_type, query_fails) ==
    IF query_fails THEN FALSE
    ELSE \E i \in 1..Len(cases) :
            /\ cases[i].source_table = source_table
            /\ cases[i].source_record_id = source_record_id
            /\ cases[i].detector_type = detector_type

\* BaseDetector.create_fraud_case: None for a duplicate, else the candidate
\* dict, always tagged with the detector's own detector_type.
create_fraud_case(self_type, cases, query_fails, severity, amount, source_table, source_record_id, confidence_score, rule) ==
    IF /\ source_table # ""
       /\ source_record_id # ""
       /\ check_existing_case(cases, source_table, source_record_id, self_type, query_fails)
    THEN <<>>
    ELSE << [detector_type |-> self_type,
             severity |-> severity,
             amount |-> IF amount # FloatOfInt(0) THEN <<amount>> ELSE <<>>,
             source_table |-> source_table,
             source_record_id |-> source_record_id,
             confidence_score |-> confidence_score,
             rule |-> rule] >>

(***************************************************************************)
(* FuelTheftDetector (services/detectors/fuel_theft_detector.py).          *)
(***************************************************************************)
\* One dispatch of _detect_consumo_anormal's loop.
ConsumoAnormalCase(cases, query_fails, d) ==
    LET cantidad == safe_float(d.CAN_DESP)
    IN  IF FGtInt(cantidad, 200)
        THEN create_fraud_case(FUEL_THEFT, cases, query_fails,
                               IF FGtInt(cantidad, 300) THEN HIGH ELSE MEDIUM,
                               safe_float(d.VTO_DESP), "DESP", ToString(d.NUM_DESP),
                               85, "consumo_excesivo")
        ELSE <<>>

\* The rows _detect_consumo_anormal fetches: WHERE CAN_DESP > 150, at most
\* 300 of them.
ConsumoDespachos(desp) ==
    LET Selected(d) == d.CAN_DESP # <<>> /\ DecGt(d.CAN_DESP[1], 150)
    IN  execute_firebird_query(SelectSeq(desp, Selected), 300)

\* FuelTheftDetector._detect_consumo_anormal: what it appends to self.results.
detect_consumo_anormal(cases, desp, query_fails) ==
    LET despachos == ConsumoDespachos(desp)
    IN  Concat([i \in 1..Len(despachos) |->
                    ConsumoAnormalCase(cases, query_fails, despachos[i])])

\* FuelTheftDetector._get_despacho_dates, read at one dispatch number: the
\* parsed date of the last fetched row with that number, None without one.
get_despacho_dates(desp, num) ==
    LET HasDate(d) == d.FEC_DESP.tag # "null"
        fechas_data == execute_firebird_query(SelectSeq(desp, HasDate), 1000)
        hits == {i \in 1..Len(fechas_data) :
                    fechas_data[i].NUM_DESP # 0 /\ fechas_data[i].NUM_DESP = num}
    IN  IF hits = {} THEN <<>>
        ELSE parse_firebird_date(fechas_data[CHOOSE i \in hits : \A j \in hits : j <= i].FEC_DESP)

\* The dispatches _detect_repostajes_excesivos groups, each with its
\* (client, calendar day) key.
RepostajesGrouped(desp, clock) ==
    LET HasClient(d) == d.COD_CLIE # ""
        despachos == execute_firebird_query(SelectSeq(desp, HasClient), 1000)
        fecha_limite == clock - 7 * 24
        Eligible(d) == LET fecha == get_despacho_dates(desp, d.NUM_DESP)
                       IN  fecha # <<>> /\ d.COD_CLIE # "" /\ fecha[1] >= fecha_limite
        kept == SelectSeq(despachos, Eligible)
    IN  [i \in 1..Len(kept) |->
            [key |-> [cliente |-> kept[i].COD_CLIE,
                      dia |-> DateOf(get_despacho_dates(desp, kept[i].NUM_DESP)[1])],
             valor |-> safe_float(kept[i].VTO_DESP)]]

\* Faulty variant of the group test: three dispatches already make a group.
RepostajesCase_From3(cases, query_fails, grouped, key) ==
    LET InGroup(g) == g.key = key
        despachos == SelectSeq(grouped, InGroup)
        num_despachos == Len(despachos)
        group_id == "MULTIPLE_" \o key.cliente \o "_" \o IsoDate(key.dia)
                        \o "_" \o ToString(num_despachos)
    IN  IF /\ num_despachos >= 3
           /\ ~check_existing_case(cases, "DESP", group_id, FUEL_THEFT, query_fails)
        THEN create_fraud_case(FUEL_THEFT, cases, query_fails,
                               IF num_despachos > 5 THEN HIGH ELSE MEDIUM,
                               FSum([i \in 1..num_despachos |-> despachos[i].valor]),
                               "DESP", group_id, 90, "repostajes_multiples")
        ELSE <<>>

\* Faulty variant of the group test: a stored case of the (client, day)
\* group with any number of dispatches suppresses the candidate.
RepostajesCase_AnySize(cases, query_fails, grouped, key) ==
    LET InGroup(g) == g.key = key
        despachos == SelectSeq(grouped, InGroup)
        num_despachos == Len(despachos)
        prefix == "MULTIPLE_" \o key.cliente \o "_" \o IsoDate(key.dia) \o "_"
        group_id == prefix \o ToString(num_despachos)
    IN  IF /\ num_despachos > 3
           /\ \A n \in 1..Len(grouped) + 1 :
                 ~check_existing_case(cases, "DESP", prefix \o ToString(n), FUEL_THEFT, query_fails)
        THEN create_fraud_case(FUEL_THEFT, cases, query_fails,
                               IF num_despachos > 5 THEN HIGH ELSE MEDIUM,
                               FSum([i \in 1..num_despachos |-> despachos[i].valor]),
                               "DESP", group_id, 90, "repostajes_multiples")
        ELSE <<>>

\* One (client, day) group of _detect_repostajes_excesivos' second loop.
RepostajesCase(cases, query_fails, grouped, key) ==
    LET InGroup(g) == g.key = key
        despachos == SelectSeq(grouped, InGroup)
        num_despachos == Len(despachos)
        group_id == "MULTIPLE_" \o key.cliente \o "_" \o IsoDate(key.dia)
                        \o "_" \o ToString(num_despachos)
    IN  IF /\ num_despachos > 3
           /\ ~check_existing_case(cases, "DESP", group_id, FUEL_THEFT, query_fails)
        THEN create_fraud_case(FUEL_THEFT, cases, query_fails,
                               IF num_despachos > 5 THEN HIGH ELSE MEDIUM,
                               FSum([i \in 1..num_despachos |-> despachos[i].valor]),
                               "DESP", group_id, 90, "repostajes_multiples")
        ELSE <<>>

\* FuelTheftDetector._detect_repostajes_excesivos.
detect_repostajes_excesivos(cases, desp, clock, query_fails) ==
    LET grouped == RepostajesGrouped(desp, clock)
        keys == KeysInOrder([i \in 1..Len(grouped) |-> grouped[i].key])
    IN  Concat([k \in 1..Len(keys) |-> RepostajesCase(cases, query_fails, grouped, keys[k])])

\* FuelTheftDetector.detect.
FuelTheftDetector_detect(cases, desp, clock, query_fails) ==
    detect_consumo_anormal(cases, desp, query_fails)
        \o detect_repostajes_excesivos(cases, desp, clock, query_fails)

(***************************************************************************)
(* InvoiceAnomalyDetector (services/detectors/invoice_anomaly_detector.py). *)
(***************************************************************************)
\* The SQL condition FEC_DCTO >= CURRENT_DATE - 30.
InLast30Days(f, clock) ==
    SqlTimestamp(f.FEC_DCTO) # <<>> /\ SqlTimestamp(f.FEC_DCTO)[1] >= (DateOf(clock) - 30) * 24

\* total = TNI_DCTO + TSI_DCTO + IVA_DCTO, each through safe_float.
InvoiceTotal(f) == FAdd(FAdd(safe_float(f.TNI_DCTO), safe_float(f.TSI_DCTO)), safe_float(f.IVA_DCTO))

\* The test of _detect_montos_redondos: a multiple of 100 above 500.
IsRoundAmount(total) == FGtInt(total, 500) /\ FModIsZero(total, 100)

\* Faulty variant of the group id: it also names the first invoice of the
\* group.
MontosRedondosCase_KeyedByFirst(cases, query_fails, redondas, cliente) ==
    LET OfClient(f) == f.COD_CLIE = cliente
        facts == SelectSeq(redondas, OfClient)
        group_id == "ROUND_" \o StrOf(cliente) \o "_" \o ToString(Len(facts))
                        \o "_" \o ToString(facts[1].SEC_DCTO)
    IN  IF /\ Len(facts) >= 3
           /\ ~check_existing_case(cases, "DCTO", group_id, ROUND_AMOUNT, query_fails)
        THEN create_fraud_case(INVOICE_ANOMALY, cases, query_fails,
                               IF Len(facts) < 5 THEN MEDIUM ELSE HIGH,
                               FSum([i \in 1..Len(facts) |-> InvoiceTotal(facts[i])]),
                               "DCTO", group_id, 75, "montos_redondos")
        ELSE <<>>

\* One client of _detect_montos_redondos' second loop.
MontosRedondosCase(cases, query_fails, redondas, cliente) ==
    LET OfClient(f) == f.COD_CLIE = cliente
        facts == SelectSeq(redondas, OfClient)
        group_id == "ROUND_" \o StrOf(cliente) \o "_" \o ToString(Len(facts))
    IN  IF /\ Len(facts) >= 3
           /\ ~check_existing_case(cases, "DCTO", group_id, ROUND_AMOUNT, query_fails)
        THEN create_fraud_case(INVOICE_ANOMALY, cases, query_fails,
                               IF Len(facts) < 5 THEN MEDIUM ELSE HIGH,
                               FSum([i \in 1..Len(facts) |-> InvoiceTotal(facts[i])]),
                               "DCTO", group_id, 75, "montos_redondos")
        ELSE <<>>

\* The invoices the first loop of _detect_montos_redondos puts into
\* cliente_montos, in the order of the rows.
MontosRedondos(dcto, clock) ==
    LET Selected(f) == /\ f.TIP_DCTO \in {"FC", "FV"}
                       /\ InLast30Days(f, clock)
                       /\ f.TNI_DCTO # <<>>
        facturas == execute_firebird_query(SelectSeq(dcto, Selected), 1000)
        Round(f) == IsRoundAmount(InvoiceTotal(f))
    IN  SelectSeq(facturas, Round)

\* InvoiceAnomalyDetector._detect_montos_redondos.
detect_montos_redondos(cases, dcto, clock, query_fails) ==
    LET redondas == MontosRedondos(dcto, clock)
        clientes == KeysInOrder([i \in 1..Len(redondas) |-> redondas[i].COD_CLIE])
    IN  Concat([k \in 1..Len(clientes) |->
                    MontosRedondosCase(cases, query_fails, redondas, clientes[k])])

\* One invoice of _detect_descuentos_excesivos' loop.
DescuentoExcesivoCase(cases, query_fails, f) ==
    LET descuento == safe_float(f.DSC_DCTO)
        total_neto == safe_float(f.TNI_DCTO)
        porcentaje_desc == FMulInt(safe_divide(descuento, total_neto, FloatOfInt(0)), 100)
    IN  IF FGtInt(descuento, 0) /\ FGtInt(total_neto, 0) /\ FGtInt(porcentaje_desc, 30)
        THEN create_fraud_case(INVOICE_ANOMALY, cases, query_fails,
                               IF FGtInt(porcentaje_desc, 50) THEN HIGH ELSE MEDIUM,
                               descuento, "DCTO", ToString(f.SEC_DCTO),
                               85, "descuento_excesivo")
        ELSE <<>>

\* InvoiceAnomalyDetector._detect_descuentos_excesivos.
detect_descuentos_excesivos(cases, dcto, clock, query_fails) ==
    LET Selected(f) == /\ f.TIP_DCTO \in {"FC", "FV"}
                       /\ InLast30Days(f, clock)
                       /\ f.DSC_DCTO # <<>> /\ f.TNI_DCTO # <<>>
                       /\ DecGt(f.DSC_DCTO[1], 0) /\ DecGt(f.TNI_DCTO[1], 0)
        facturas == execute_firebird_query(SelectSeq(dcto, Selected), 1000)
    IN  Concat([i \in 1..Len(facturas) |->
                    DescuentoExcesivoCase(cases, query_fails, facturas[i])])

\* Faulty variant of the after-hours test: 20:00 already counts as late.
IsFueraHorario_From20(f) ==
    LET fecha == parse_firebird_date(f.FEC_DCTO)
    IN  /\ fecha # <<>>
        /\ \/ HourOf(fecha[1]) < 7
           \/ HourOf(fecha[1]) >= 20
           \/ Weekday(fecha[1]) \in {5, 6}

\* The test of _detect_fuera_horario on one invoice.
IsFueraHorario(f) ==
    LET fecha == parse_firebird_date(f.FEC_DCTO)
    IN  /\ fecha # <<>>
        /\ \/ HourOf(fecha[1]) < 7
           \/ HourOf(fecha[1]) > 20
           \/ Weekday(fecha[1]) \in {5, 6}

\* One client of _detect_fuera_horario's last loop.
FueraHorarioCase(cases, query_fails, fuera_horario, client) ==
    LET OfClient(f) == f.COD_CLIE = client
        facts == SelectSeq(fuera_horario, OfClient)
        group_id == "AFTERHOURS_" \o StrOf(client) \o "_" \o ToString(Len(facts))
    IN  IF /\ Len(facts) >= 2
           /\ ~check_existing_case(cases, "DCTO", group_id, AFTERHOURS, query_fails)
        THEN create_fraud_case(INVOICE_ANOMALY, cases, query_fails,
                               IF Len(facts) < 5 THEN MEDIUM ELSE HIGH,
                               FSum([i \in 1..Len(facts) |-> InvoiceTotal(facts[i])]),
                               "DCTO", group_id, 80, "fuera_horario")
        ELSE <<>>

\* InvoiceAnomalyDetector._detect_fuera_horario.
detect_fuera_horario(cases, dcto, clock, query_fails) ==
    LET Selected(f) == /\ f.TIP_DCTO \in {"FC", "FV", "EB"}
                       /\ InLast30Days(f, clock)
        facturas == execute_firebird_query(SelectSeq(dcto, Selected), 1000)
        fuera_horario == SelectSeq(facturas, IsFueraHorario)
        clients == KeysInOrder([i \in 1..Len(fuera_horario) |-> fuera_horario[i].COD_CLIE])
    IN  Concat([k \in 1..Len(clients) |->
                    FueraHorarioCase(cases, query_fails, fuera_horario, clients[k])])

\* InvoiceAnomalyDetector.detect.
InvoiceAnomalyDetector_detect(cases, dcto, clock, query_fails) ==
    detect_montos_redondos(cases, dcto, clock, query_fails)
        \o detect_descuentos_excesivos(cases, dcto, clock, query_fails)
        \o detect_fuera_horario(cases, dcto, clock, query_fails)

(***************************************************************************)
(* DataManipulationDetector                                                *)
(* (services/detectors/data_manipulation_detector.py).                     *)
(***************************************************************************)
\* The (user, day) keys of the edits _detect_cambios_masivos counts, one per
\* counted edit.
CambiosKeys(xdcto, clock) ==
    LET HasDate(c) == c.FEC_XDCTO.tag # "null"
        cambios == execute_firebird_query(SelectSeq(xdcto, HasDate), 1000)
        fecha_limite == clock - 7 * 24
        Counted(c) == LET fecha == parse_firebird_date(c.FEC_XDCTO)
                      IN  fecha # <<>> /\ fecha[1] >= fecha_limite
        kept == SelectSeq(cambios, Counted)
    IN  [i \in 1..Len(kept) |->
            [usuario |-> kept[i].COD_XUSUA,
             dia |-> DateOf(parse_firebird_date(kept[i].FEC_XDCTO)[1])]]

\* DataManipulationDetector._detect_cambios_masivos.  For the first group
\* with more than 20 edits and no existing case, create_fraud_case is called
\* with the keyword created_by, which it does not accept: the call raises
\* TypeError, the heuristic's except clause ends the heuristic, and nothing
\* was appended before.  Groups of 20 or fewer edits append nothing either.
detect_cambios_masivos(cases, xdcto, clock, query_fails) ==
    LET all == CambiosKeys(xdcto, clock)
        keys == KeysInOrder(all)
        Count(key) == Cardinality({i \in 1..Len(all) : all[i] = key})
        GroupId(key) == "MASSIVE_" \o key.usuario \o "_" \o IsoDate(key.dia)
                            \o "_" \o ToString(Count(key))
        raises == \E k \in 1..Len(keys) :
                     /\ Count(keys[k]) > 20
                     /\ ~check_existing_case(cases, "XDCTO", GroupId(keys[k]),
                                             DATA_MANIPULATION, query_fails)
    IN  IF raises THEN <<>> ELSE <<>>

\* re.search(r'(\d+)', str(num_dcto)): the first run of digits of the
\* document number; a document number is the sequence of its digit runs.
FirstDigits(num_dcto) == IF num_dcto = <<>> THEN <<>> ELSE <<num_dcto[1]>>

\* The gaps of more than 10 between consecutive numbers of the sorted docs.
SequenceGaps(numeros) ==
    LET sorted == SortSeq(numeros, LAMBDA a, b : a < b)
        diffs == [i \in 1..(Len(sorted) - 1) |-> sorted[i + 1] - sorted[i]]
        Big(diff) == diff > 10
    IN  SelectSeq(diffs, Big)

\* One document type of _detect_secuencias_faltantes' second loop.
SecuenciasCase(cases, query_fails, documentos, tipo) ==
    LET Numbered(doc) == doc.TIP_DCTO = tipo /\ FirstDigits(doc.NUM_DCTO) # <<>>
        docs == SelectSeq(documentos, Numbered)
        gaps == SequenceGaps([i \in 1..Len(docs) |-> FirstDigits(docs[i].NUM_DCTO)[1]])
        total_gap == SumSeq(gaps)
        group_id == "GAPS_" \o tipo \o "_" \o ToString(total_gap)
    IN  IF /\ Len(docs) >= 10
           /\ Len(gaps) >= 2
           /\ ~check_existing_case(cases, "DCTO", group_id, SEQUENCE_GAP, query_fails)
        THEN create_fraud_case(DATA_MANIPULATION, cases, query_fails,
                               IF total_gap < 50 THEN MEDIUM ELSE HIGH,
                               FloatOfInt(0), "DCTO", group_id, 70, "secuencia_faltante")
        ELSE <<>>

\* DataManipulationDetector._detect_secuencias_faltantes.
detect_secuencias_faltantes(cases, dcto, clock, query_fails) ==
    LET Selected(doc) == /\ doc.TIP_DCTO \in {"FC", "FV"}
                         /\ InLast30Days(doc, clock)
                         /\ doc.NUM_DCTO # <<>>
        documentos == execute_firebird_query(SelectSeq(dcto, Selected), 1000)
        tipos == KeysInOrder([i \in 1..Len(documentos) |-> documentos[i].TIP_DCTO])
    IN  Concat([k \in 1..Len(tipos) |->
                    SecuenciasCase(cases, query_fails, documentos, tipos[k])])

\* DataManipulationDetector.detect.
DataManipulationDetector_detect(cases, xdcto, dcto, clock, query_fails) ==
    detect_cambios_masivos(cases, xdcto, clock, query_fails)
        \o detect_secuencias_faltantes(cases, dcto, clock, query_fails)

(***************************************************************************)
(* DetectorFactory (services/detectors/detector_factory.py).               *)
(***************************************************************************)
\* detector.detect() of the instance get_detector returns for a kind.
detect(detector_type, cases, query_fails) ==
    CASE detector_type = INVOICE_ANOMALY ->
            InvoiceAnomalyDetector_detect(cases, DCTO, now, query_fails)
      [] detector_type = FUEL_THEFT ->
            FuelTheftDetector_detect(cases, DESP, now, query_fails)
      [] detector_type = DATA_MANIPULATION ->
            DataManipulationDetector_detect(cases, XDCTO, DCTO, now, query_fails)

\* DetectorFactory.get_detector: None for a kind that is not registered.
get_detector(detector_type) ==
    IF \E i \in 1..Len(detectors) : detectors[i] = detector_type
    THEN <<detector_type>> ELSE <<>>

\* results[key] = value on a dict.
DictSet(d, key, value) ==
    IF \E i \in 1..Len(d) : d[i].key = key
    THEN [i \in 1..Len(d) |-> IF d[i].key = key THEN [key |-> key, value |-> value] ELSE d[i]]
    ELSE Append(d, [key |-> key, value |-> value])

DictKeys(d) == [i \in 1..Len(d) |-> d[i].key]
DictHas(d, key) == \E i \in 1..Len(d) : d[i].key = key
DictGet(d, key) == d[CHOOSE i \in 1..Len(d) : d[i].key = key].value

\* The try block of run_all_detectors and run_specific_detectors for one
\* detector.  raising: the kinds whose detect() raises in this run;
\* failing: the kinds whose Case Store queries fail in this run.  `calls`
\* records each invocation of detect() and how it went.
RunDetector(acc, detector_type, cases, raising, failing) ==
    [results |-> DictSet(acc.results, detector_type,
                         IF detector_type \in raising THEN <<>>
                         ELSE detect(detector_type, cases, detector_type \in failing)),
     calls |-> Append(acc.calls, [kind |-> detector_type,
                                  raised |-> detector_type \in raising,
                                  query_failed |-> detector_type \in failing])]

\* Faulty variant of run_all_detectors' loop body: the except clause does
\* not record the empty list of a detector that raised.
RunAllStep_NoEntryOnRaise(acc, detector_type, cases, raising, failing) ==
    IF get_detector(detector_type) # <<>> /\ enabled_by_default[detector_type]
    THEN IF detector_type \in raising
         THEN [acc EXCEPT !.calls = Append(@, [kind |-> detector_type, raised |-> TRUE,
                                               query_failed |-> detector_type \in failing])]
         ELSE RunDetector(acc, detector_type, cases, raising, failing)
    ELSE acc

\* Faulty variant of run_all_detectors' loop body: enabled_by_default is not
\* consulted.
RunAllStep_IgnoresEnabled(acc, detector_type, cases, raising, failing) ==
    IF get_detector(detector_type) # <<>>
    THEN RunDetector(acc, detector_type, cases, raising, failing)
    ELSE acc

\* The body of run_all_detectors' loop.
RunAllStep(acc, detector_type, cases, raising, failing) ==
    IF get_detector(detector_type) # <<>> /\ enabled_by_default[detector_type]
    THEN RunDetector(acc, detector_type, cases, raising, failing)
    ELSE acc

RECURSIVE RunAllLoop(_, _, _, _)
RunAllLoop(kinds, cases, raising, failing) ==
    IF kinds = <<>> THEN [results |-> <<>>, calls |-> <<>>]
    ELSE RunAllStep(RunAllLoop(Front(kinds), cases, raising, failing),
                    Last(kinds), cases, raising, failing)

\* DetectorFactory.run_all_detectors.
run_all_detectors(cases, raising, failing) ==
    RunAllLoop(detectors, cases, raising, failing)

\* Faulty variant of run_specific_detectors' loop body: a kind that is not
\* registered gets an empty entry in the results.
RunSpecificStep_EntryForUnknown(acc, detector_type, cases, raising, failing) ==
    IF get_detector(detector_type) # <<>>
    THEN RunDetector(acc, detector_type, cases, raising, failing)
    ELSE [acc EXCEPT !.results = DictSet(@, detector_type, <<>>)]

\* The body of run_specific_detectors' loop.
RunSpecificStep(acc, detector_type, cases, raising, failing) ==
    IF get_detector(detector_type) # <<>>
    THEN RunDetector(acc, detector_type, cases, raising, failing)
    ELSE acc

RECURSIVE RunSpecificLoop(_, _, _, _)
RunSpecificLoop(kinds, cases, raising, failing) ==
    IF kinds = <<>> THEN [results |-> <<>>, calls |-> <<>>]
    ELSE RunSpecificStep(RunSpecificLoop(Front(kinds), cases, raising, failing),
                         Last(kinds), cases, raising, failing)

\* DetectorFactory.run_specific_detectors.
run_specific_detectors(detector_types, cases, raising, failing) ==
    RunSpecificLoop(detector_types, cases, raising, failing)

(***************************************************************************)
(* Case Store writes (database/db_context.py).                             *)
(***************************************************************************)
\* The row FraudDetectionDbContext.create_fraud_case inserts for fraud_data.
NewFraudCase(fraud_data, id) ==
    [id |-> id,
     case_number |-> "FRAUD-" \o ToString(id),
     detector_type |-> fraud_data.detector_type,
     severity |-> fraud_data.severity,
     status |-> PENDING,
     amount |-> fraud_data.amount,
     source_table |-> fraud_data.source_table,
     source_record_id |-> fraud_data.source_record_id,
     confidence_score |-> fraud_data.confidence_score,
     updated_by |-> <<>>]

\* The outcomes of FraudDetectionDbContext.create_fraud_case: it returns the
\* case, or its first commit raises (nothing is stored), or the commit of
\* the audit entry raises (the case is stored already).
CreateOutcomes == {"ok", "commit_raises", "audit_raises"}

\* Faulty variant of the Case Store's create: a candidate whose triple is
\* stored already overwrites the stored row (status and id included).
db_create_fraud_case_Upsert(cases, fraud_data, id, outcome) ==
    LET Same(i) == /\ cases[i].source_table = fraud_data.source_table
                   /\ cases[i].source_record_id = fraud_data.source_record_id
                   /\ cases[i].detector_type = fraud_data.detector_type
    IN  IF outcome = "commit_raises" THEN cases
        ELSE IF \E i \in 1..Len(cases) : Same(i)
        THEN [i \in 1..Len(cases) |-> IF Same(i) THEN NewFraudCase(fraud_data, id) ELSE cases[i]]
        ELSE Append(cases, NewFraudCase(fraud_data, id))

\* fraud_cases after FraudDetectionDbContext.create_fraud_case.
db_create_fraud_case(cases, fraud_data, id, outcome) ==
    IF outcome = "commit_raises" THEN cases
    ELSE Append(cases, NewFraudCase(fraud_data, id))

\* audit_logs after FraudDetectionDbContext.create_fraud_case.
db_create_audit_log(logs, id, outcome) ==
    IF outcome = "ok"
    THEN Append(logs, [action |-> "CREATE_FRAUD_CASE", fraud_case_id |-> id])
    ELSE logs

\* session.query(FraudCase).filter(FraudCase.id == case_id).first(): the
\* position of the case, 0 without one.
FindCase(cases, case_id) ==
    IF \E i \in 1..Len(cases) : cases[i].id = case_id
    THEN CHOOSE i \in 1..Len(cases) :
            cases[i].id = case_id /\ \A j \in 1..(i - 1) : cases[j].id # case_id
    ELSE 0

\* The values of the enumeration FraudStatus.
FraudStatus == {PENDING, CONFIRMED, "RECHAZADO", INVESTIGATING, "RESUELTO"}

\* fraud_cases after FraudDetectionDbContext.update_fraud_case_status: the
\* status becomes the member of FraudStatus whose value is new_status, and
\* stays as it was when the loop finds none.
db_update_fraud_case_status(cases, case_id, new_status, user) ==
    LET i == FindCase(cases, case_id)
    IN  IF i = 0 THEN cases
        ELSE [cases EXCEPT ![i].status = IF new_status \in FraudStatus THEN new_status ELSE @,
                           ![i].updated_by = <<user>>]

\* What FraudDetectionDbContext.update_fraud_case_status returns.
db_update_returns(cases, case_id) == FindCase(cases, case_id) # 0

\* Faulty variant of the audit entry: it is written before the case is
\* looked up, for an unknown id as well.
db_update_audit_log_Unconditional(logs, cases, case_id, new_status) ==
    LET i == FindCase(cases, case_id)
    IN  Append(logs, [action |-> "UPDATE_STATUS", fraud_case_id |-> case_id,
                      old_status |-> IF i = 0 THEN PENDING ELSE cases[i].status,
                      new_status |-> new_status])

\* audit_logs after FraudDetectionDbContext.update_fraud_case_status.
db_update_audit_log(logs, cases, case_id, new_status) ==
    LET i == FindCase(cases, case_id)
    IN  IF i = 0 THEN logs
        ELSE Append(logs, [action |-> "UPDATE_STATUS", fraud_case_id |-> case_id,
                           old_status |-> cases[i].status, new_status |-> new_status])

(***************************************************************************)
(* Source data the behaviours start from.                                  *)
(***************************************************************************)
\* The clock at start: day 40 (a Saturday), 12:00.
Clock0 == 40 * 24 + 12

Dispatch(num, cliente, cantidad, valor, fecha) ==
    [NUM_DESP |-> num, COD_CLIE |-> cliente, CAN_DESP |-> <<Dec(cantidad, 0)>>,
     VTO_DESP |-> <<Dec(valor, 0)>>, FEC_DESP |-> fecha]

\* Five dispatches of one client on day 33, the first of them exactly seven
\* days before Clock0 and above 200 gallons.
AnomalousDESP ==
    << Dispatch(1, "C1", 250, 875, DateTime(33, 12)),
       Dispatch(2, "C1", 80, 280, DateTime(33, 13)),
       Dispatch(3, "C1", 85, 297, DateTime(33, 14)),
       Dispatch(4, "C1", 90, 315, DateTime(33, 15)),
       Dispatch(5, "C1", 95, 332, DateTime(33, 16)) >>

Document(sec, num, cliente, neto, descuento, fecha) ==
    [SEC_DCTO |-> sec, TIP_DCTO |-> "FC", NUM_DCTO |-> <<num>>, COD_CLIE |-> cliente,
     TNI_DCTO |-> <<Dec(neto, 0)>>, TSI_DCTO |-> <<Dec(0, 0)>>, IVA_DCTO |-> <<>>,
     DSC_DCTO |-> <<Dec(descuento, 0)>>, FEC_DCTO |-> fecha]

\* Ten invoices numbered 1..8, 20, 40; three round ones of client C1, one of
\* them discounted by more than half, two of them issued at 22:00.
AnomalousDCTO ==
    << Document(1, 1, "C1", 600, 301, DateTime(36, 10)),
       Document(2, 2, "C1", 600, 0, DateTime(36, 22)),
       Document(3, 3, "C1", 600, 0, DateTime(37, 22)),
       Document(4, 4, "C2", 50, 0, DateTime(36, 10)),
       Document(5, 5, "C2", 50, 0, DateTime(36, 11)),
       Document(6, 6, "C2", 50, 0, DateTime(36, 12)),
       Document(7, 7, "C2", 50, 0, DateTime(37, 10)),
       Document(8, 8, "C2", 50, 0, DateTime(37, 11)),
       Document(9, 20, "C2", 50, 0, DateTime(37, 12)),
       Document(10, 40, "C2", 50, 0, DateTime(38, 10)) >>

\* Twenty-one edits of one user on day 39.
AnomalousXDCTO == [i \in 1..21 |-> [COD_XUSUA |-> "U1", FEC_XDCTO |-> DateTime(39, 10)]]

\* The source databases a behaviour may start from: one with the anomalies
\* of each detector, and one without any row.
Datasets ==
    { [desp |-> AnomalousDESP, dcto |-> <<>>, xdcto |-> <<>>],
      [desp |-> <<>>, dcto |-> AnomalousDCTO, xdcto |-> AnomalousXDCTO],
      [desp |-> <<>>, dcto |-> <<>>, xdcto |-> <<>>] }

\* The orders in which _load_detectors may meet the detector modules.
RegistryOrders ==
    { <<DATA_MANIPULATION, FUEL_THEFT, INVOICE_ANOMALY>> }

\* The enabled_by_default flags: all detectors enabled, or one disabled.
EnabledFlags ==
    { f \in [DetectorClasses -> BOOLEAN] : Cardinality({k \in DetectorClasses : ~f[k]}) <= 1 }

\* The values of DetectorRunRequest.detector_types: None, or a list of kinds.
RequestKinds == {FUEL_THEFT, UnknownKind}

RECURSIVE ListsUpTo(_)
ListsUpTo(n) ==
    IF n = 0 THEN {<<>>}
    ELSE LET shorter == ListsUpTo(n - 1)
         IN  shorter \cup {Append(l, k) : l \in {x \in shorter : Len(x) = n - 1}, k \in RequestKinds}

Requests == {<<>>} \cup {<<l>> : l \in ListsUpTo(MaxRequestLen) \ {<<>>}}

(***************************************************************************)
(* Source rows for the heuristics, one table at a time, around each        *)
(* heuristic's thresholds.  Day 36 is a Tuesday inside every window.       *)
(***************************************************************************)
\* Quantities around the pre-filter (150) and the two thresholds (200, 300).
Quantities == {150, 200, 201, 300, 301}

\* Two dispatches without a client, with every pair of quantities.
ConsumoInputs ==
    { << Dispatch(1, "", q1, 500, DateTime(36, 10)), Dispatch(2, "", q2, 700, DateTime(36, 11)) >> : q1, q2 \in Quantities }

\* More rows above the pre-filter than one fetch of _detect_consumo_anormal
\* reads (fetch_size=300), the last of them of 250 gallons.
ManyDispatches ==
    [i \in 1..301 |-> Dispatch(i, "", IF i = 301 THEN 250 ELSE 160, 500, DateTime(36, 10))]

\* n dispatches of client C1 on one day, one per hour from 12:00.
SameDay(n, day) == [i \in 1..n |-> Dispatch(i, "C1", 80, 100 + i, DateTime(day, 11 + i))]

\* 3 to 6 dispatches of one client: on day 33 (the first one exactly seven
\* days before Clock0), on day 36, on day 30 (outside the window); and two
\* clients on the same day.
RepostajesInputs ==
    { SameDay(n, day) : n \in 3..6, day \in {30, 33, 36} }
       \cup { SameDay(4, 36) \o [i \in 1..n |-> Dispatch(10 + i, "C2", 80, 200, DateTime(36, 9))] : n \in 3..4 }

\* Net totals and discounts: 30%, 30.1%, 50%, 50.1% and 0% of 1000; 30%,
\* 30.01% and 50% of 1000 and of 9 with cents; thirds and sevenths.
NetAndDiscount ==
    { <<Dec(1000, 0), Dec(300, 0)>>, <<Dec(1000, 0), Dec(301, 0)>>, <<Dec(1000, 0), Dec(500, 0)>>,
      <<Dec(1000, 0), Dec(501, 0)>>, <<Dec(1000, 0), Dec(0, 0)>>, <<Dec(1000, 0), Dec(300, 10)>>,
      <<Dec(1000, 0), Dec(500, 10)>>, <<Dec(9, 0), Dec(2, 70)>>, <<Dec(9, 0), Dec(2, 71)>>,
      <<Dec(9, 0), Dec(4, 50)>>, <<Dec(9, 0), Dec(4, 51)>>, <<Dec(10, 0), Dec(3, 0)>>,
      <<Dec(10, 0), Dec(5, 0)>>, <<Dec(7, 0), Dec(2, 10)>>, <<Dec(7, 0), Dec(2, 11)>>,
      <<Dec(3, 0), Dec(1, 0)>>, <<Dec(41, 0), Dec(12, 30)>> }

\* One invoice with each net total and discount.
DescuentoInputs ==
    { << [Document(1, 1, "C1", 0, 0, DateTime(36, 10)) EXCEPT !.TNI_DCTO = <<nd[1]>>, !.DSC_DCTO = <<nd[2]>>] >> : nd \in NetAndDiscount }

\* An invoice whose total is made of a net, a tax-exempt and a tax amount.
WithTotal(f, neto, exento, iva) == [f EXCEPT !.TNI_DCTO = <<neto>>, !.TSI_DCTO = <<exento>>, !.IVA_DCTO = <<iva>>]

\* Net, tax-exempt and tax amounts of an invoice: totals of 500, 650, 600
\* (as 400 + 100 + 100), 1000, 600.50, and 600 made of amounts with cents.
TotalParts ==
    { <<Dec(500, 0), Dec(0, 0), Dec(0, 0)>>, <<Dec(650, 0), Dec(0, 0), Dec(0, 0)>>,
      <<Dec(400, 0), Dec(100, 0), Dec(100, 0)>>, <<Dec(1000, 0), Dec(0, 0), Dec(0, 0)>>,
      <<Dec(600, 50), Dec(0, 0), Dec(0, 0)>>, <<Dec(599, 50), Dec(0, 25), Dec(0, 25)>>,
      <<Dec(504, 98), Dec(32, 69), Dec(62, 33)>>, <<Dec(535, 70), Dec(64, 30), Dec(0, 0)>> }

\* n invoices of 600 of client C1 and one more invoice of the same client
\* with each of the totals.
RedondosInputs ==
    { [i \in 1..n |-> Document(i, i, "C1", 600, 0, DateTime(36, 10))]
         \o << WithTotal(Document(9, 9, "C1", 0, 0, DateTime(36, 11)), x[1], x[2], x[3]) >> :
         n \in 2..5, x \in TotalParts }

\* Times around the working hours of a Tuesday, and midday on a Friday, a
\* Saturday and a Sunday.
InvoiceTimes ==
    { DateTime(36, 6), DateTime(36, 7), DateTime(36, 20), DateTime(36, 21), DateTime(39, 12), DateTime(33, 12), DateTime(34, 12) }

\* Two invoices of one client at every pair of times; and 4 or 5 invoices
\* at 22:00, one of them a delivery note (EB).
HorarioInputs ==
    { << Document(1, 1, "C1", 50, 0, t1), Document(2, 2, "C1", 50, 0, t2) >> : t1, t2 \in InvoiceTimes }
       \cup { [i \in 1..n |-> [Document(i, i, "C1", 50, 0, DateTime(36, 22)) EXCEPT !.TIP_DCTO = IF i = 1 THEN "EB" ELSE "FC"]] : n \in 4..5 }

\* Invoices of client C2 with the given document numbers, a number being
\* the sequence of its runs of digits ("001-0000020" is <<1, 20>>).
NumberedDocs(nums) == [i \in 1..Len(nums) |-> [Document(i, 0, "C2", 50, 0, DateTime(36, 10)) EXCEPT !.NUM_DCTO = nums[i]]]

\* Document numbers 1..8 followed by two more: with two gaps (total 32),
\* with two large gaps (total 52), with one gap, with none; three documents
\* with two gaps; and ten documents with two gaps behind a prefix.
SecuenciasInputs ==
    { NumberedDocs([i \in 1..8 |-> <<i>>] \o << <<x[1]>>, <<x[2]>> >>) : x \in { <<20, 40>>, <<30, 60>>, <<9, 40>>, <<9, 10>> } }
       \cup { NumberedDocs(<< <<1>>, <<20>>, <<40>> >>) }
       \cup { NumberedDocs([i \in 1..8 |-> <<1, i>>] \o << <<1, 20>>, <<1, 40>> >>) }

\* n edits of user U1 on one day.
Edits(n, day) == [i \in 1..n |-> [COD_XUSUA |-> "U1", FEC_XDCTO |-> DateTime(day, 10)]]

CambiosInputs == { Edits(n, day) : n \in {20, 21, 51}, day \in {30, 39} }

\* One dispatch of 250 gallons dated 38, 31, 30, 7 and 4 days before Clock0.
DatedDispatches == { << Dispatch(1, "", 250, 875, DateTime(day, 10)) >> : day \in {2, 9, 10, 33, 36} }

\* Two dispatch rows with the same number, both above 200 gallons.
EqualNumbers == { << Dispatch(7, "", 250, 875, DateTime(36, 10)), Dispatch(7, "", 260, 910, DateTime(36, 11)) >> }

\* The source databases the heuristics are applied to.
HeuristicInputs ==
    { [desp |-> d, dcto |-> <<>>, xdcto |-> <<>>] : d \in ConsumoInputs \cup {ManyDispatches} \cup RepostajesInputs \cup DatedDispatches \cup EqualNumbers }
       \cup { [desp |-> <<>>, dcto |-> d, xdcto |-> <<>>] : d \in DescuentoInputs \cup RedondosInputs \cup HorarioInputs \cup SecuenciasInputs }
       \cup { [desp |-> <<>>, dcto |-> <<>>, xdcto |-> x] : x \in CambiosInputs }

(***************************************************************************)
(* Orchestration driver (api/main.py).                                     *)
(***************************************************************************)
AutoTask == "automatic_detection"
RequestTasks == {"run_detection"}
Tasks == {AutoTask} \cup RequestTasks

\* The locals of a driver coroutine.  mode, requested, calls and attempts
\* record which factory method the run called ("all", "specific", "none"
\* before the first run), what it was asked, which detect() calls it made
\* and which db_context.create_fraud_case calls it made; previous is the
\* request and the response of the run before.
IdleTask(pc) ==
    [pc |-> pc, mode |-> "none", requested |-> <<>>, detection_results |-> <<>>, calls |-> <<>>,
     todo |-> <<>>, attempts |-> <<>>, all_results |-> <<>>, response |-> <<>>,
     previous |-> <<>>]

\* The (detector_type, fraud_data) pairs the two nested loops visit, in order.
RECURSIVE Flatten(_)
Flatten(detection_results) ==
    IF detection_results = <<>> THEN <<>>
    ELSE LET e == Last(detection_results)
         IN  Flatten(Front(detection_results))
                \o [j \in 1..Len(e.value) |-> [detector |-> e.key, fraud_data |-> e.value[j]]]

Init ==
    /\ detectors \in RegistryOrders
    /\ enabled_by_default \in EnabledFlags
    /\ \E d \in Datasets : DESP = d.desp /\ DCTO = d.dcto /\ XDCTO = d.xdcto
    /\ now = Clock0
    /\ fraud_cases = <<>>
    /\ audit_logs = <<>>
    /\ next_id = 1
    /\ active_connections = 0
    /\ notifications = <<>>
    /\ task = [t \in Tasks |-> IdleTask(IF t = AutoTask THEN "sleep" ELSE "idle")]
    /\ holder = "none"
    /\ faults = 0
    /\ runs = 0

\* The failures the detection phase of a run may meet, within the fault
\* budget: among the detectors the run calls, at most one whose detect()
\* raises and at most one whose Case Store queries fail.
FaultChoices(called) ==
    LET AtMostOne == {{}} \cup {{k} : k \in called}
    IN  {<<raising, failing>> \in AtMostOne \X AtMostOne :
            /\ raising \cap failing = {}
            /\ faults + Cardinality(raising) + Cardinality(failing) <= MaxFaults}

\* The detectors run_all_detectors calls, and those run_specific_detectors
\* calls for a list.
CalledByAll == {k \in DetectorClasses : get_detector(k) # <<>> /\ enabled_by_default[k]}
CalledBySpecific(list) ==
    {k \in DetectorClasses : get_detector(k) # <<>> /\ \E i \in 1..Len(list) : list[i] = k}

\* The locals of a driver coroutine once the factory has returned.
AfterDetection(old, mode, request, run) ==
    [pc |-> "process", mode |-> mode, requested |-> request, detection_results |-> run.results,
     calls |-> run.calls, todo |-> Flatten(run.results), attempts |-> <<>>,
     all_results |-> <<>>, response |-> <<>>,
     previous |-> IF old.response # <<>>
                  THEN <<[requested |-> old.requested, response |-> old.response[1]]>>
                  ELSE old.previous]

\* run_detection up to the start of its loops: the factory is called
\* without an await in between, so the whole detection is one step.
run_detection(t, request) ==
    /\ task[t].pc = "idle"
    /\ holder = "none"
    /\ runs < MaxRuns
    /\ LET specific == request # <<>> /\ request[1] # <<>>
       IN
       \E fc \in FaultChoices(IF specific THEN CalledBySpecific(request[1]) ELSE CalledByAll) :
          LET run == IF specific
                     THEN run_specific_detectors(request[1], fraud_cases, fc[1], fc[2])
                     ELSE run_all_detectors(fraud_cases, fc[1], fc[2])
          IN  /\ task' = [task EXCEPT ![t] =
                            AfterDetection(task[t], IF specific THEN "specific" ELSE "all",
                                           request, run)]
              /\ faults' = faults + Cardinality(fc[1]) + Cardinality(fc[2])
    /\ holder' = t
    /\ runs' = runs + 1
    /\ UNCHANGED <<detectors, enabled_by_default, DESP, DCTO, XDCTO, now, fraud_cases,
                   audit_logs, next_id, active_connections, notifications>>

\* automatic_detection from the end of asyncio.sleep(300) to the start of
\* its loops.
automatic_detection ==
    /\ task[AutoTask].pc = "sleep"
    /\ holder = "none"
    /\ runs < MaxRuns
    /\ \E fc \in FaultChoices(CalledByAll) :
          LET run == run_all_detectors(fraud_cases, fc[1], fc[2])
          IN  /\ task' = [task EXCEPT ![AutoTask] = AfterDetection(task[AutoTask], "all", <<>>, run)]
              /\ faults' = faults + Cardinality(fc[1]) + Cardinality(fc[2])
    /\ holder' = AutoTask
    /\ runs' = runs + 1
    /\ UNCHANGED <<detectors, enabled_by_default, DESP, DCTO, XDCTO, now, fraud_cases,
                   audit_logs, next_id, active_connections, notifications>>

\* Faulty variant of `if case:`: the result of create_fraud_case is not
\* tested before the case is reported and broadcast.
CaseReturned_Untested(outcome) == TRUE

\* Faulty variant of the inner try/except: a failed create_fraud_case ends
\* the loops.
RemainingAfter_StopsOnFailure(todo, outcome) ==
    IF outcome # "ok" THEN <<>> ELSE Tail(todo)

\* `if case:` after db_context.create_fraud_case: the case is reported and
\* broadcast when the call returned one.
CaseReturned(outcome) == outcome = "ok"

\* The candidates still to visit after one create_fraud_case call: the
\* inner try/except swallows a failure and the loops go on.
RemainingAfter(todo, outcome) == Tail(todo)

\* The message handed to manager.broadcast for a stored case.
Broadcast(t, detector, id) ==
    [event |-> IF t = AutoTask THEN "auto_detection" ELSE "new_case",
     case_id |-> id, detector_type |-> detector]

\* One pass of the inner loop of run_detection or automatic_detection:
\* db_context.create_fraud_case, then `await manager.broadcast(...)` for a
\* returned case.  The coroutine can be suspended only in that await, and
\* only when there is a connection to send to.
persist_candidate(t) ==
    /\ task[t].pc = "process"
    /\ holder \in {"none", t}
    /\ task[t].todo # <<>>
    /\ \E outcome \in CreateOutcomes :
          LET item == Head(task[t].todo)
              sent == CaseReturned(outcome)
          IN  /\ outcome # "ok" => faults < MaxFaults
              /\ faults' = IF outcome # "ok" THEN faults + 1 ELSE faults
              /\ fraud_cases' = db_create_fraud_case(fraud_cases, item.fraud_data, next_id, outcome)
              /\ audit_logs' = db_create_audit_log(audit_logs, next_id, outcome)
              /\ next_id' = IF outcome = "commit_raises" THEN next_id ELSE next_id + 1
              /\ notifications' = IF sent
                                  THEN Append(notifications, Broadcast(t, item.detector, next_id))
                                  ELSE notifications
              /\ task' = [task EXCEPT
                            ![t].todo = RemainingAfter(task[t].todo, outcome),
                            ![t].attempts = Append(@, [detector |-> item.detector,
                                                       fraud_data |-> item.fraud_data,
                                                       outcome |-> outcome,
                                                       case_id |-> next_id]),
                            ![t].all_results = IF sent THEN Append(@, next_id) ELSE @]
              /\ holder' = IF sent /\ active_connections > 0 THEN "none" ELSE t
    /\ UNCHANGED <<detectors, enabled_by_default, DESP, DCTO, XDCTO, now,
                   active_connections, runs>>

\* The response run_detection returns after its loops.
Response(all_results, detection_results) ==
    [success |-> TRUE, cases_detected |-> Len(all_results), results |-> all_results,
     detectors_run |-> DictKeys(detection_results)]

\* run_detection's return.
run_detection_return(t) ==
    /\ t \in RequestTasks
    /\ task[t].pc = "process"
    /\ holder \in {"none", t}
    /\ task[t].todo = <<>>
    /\ task' = [task EXCEPT ![t].pc = "idle",
                            ![t].response = <<Response(task[t].all_results,
                                                       task[t].detection_results)>>]
    /\ holder' = "none"
    /\ UNCHANGED <<detectors, enabled_by_default, DESP, DCTO, XDCTO, now, fraud_cases,
                   audit_logs, next_id, active_connections, notifications, faults, runs>>

(***************************************************************************)
(* The periodic task as a loop that is never bounded: the behaviours for   *)
(* liveness.                                                               *)
(***************************************************************************)
\* automatic_detection from the end of asyncio.sleep(300) to the start of
\* its loops, for any number of cycles: the counter of runs stops at
\* MaxRuns and does not stop the loop.
automatic_detection_cycle ==
    /\ task[AutoTask].pc = "sleep"
    /\ holder = "none"
    /\ \E fc \in FaultChoices(CalledByAll) :
          \E run \in {run_all_detectors(fraud_cases, fc[1], fc[2])} :
              /\ task' = [task EXCEPT ![AutoTask] = AfterDetection(task[AutoTask], "all", <<>>, run)]
              /\ faults' = faults + Cardinality(fc[1]) + Cardinality(fc[2])
    /\ holder' = AutoTask
    /\ runs' = IF runs < MaxRuns THEN runs + 1 ELSE runs
    /\ UNCHANGED <<detectors, enabled_by_default, DESP, DCTO, XDCTO, now, fraud_cases,
                   audit_logs, next_id, active_connections, notifications>>

\* Faulty variant of the end of a cycle: the try/except is around the while
\* loop, so a cycle in which a detector or a create_fraud_case call failed
\* ends the task.
automatic_detection_sleep_ExitsOnFailure ==
    /\ task[AutoTask].pc = "process"
    /\ holder \in {"none", AutoTask}
    /\ task[AutoTask].todo = <<>>
    /\ task' = [task EXCEPT ![AutoTask].pc =
                   IF \/ \E i \in 1..Len(task[AutoTask].calls) : task[AutoTask].calls[i].raised
                      \/ \E i \in 1..Len(task[AutoTask].attempts) : task[AutoTask].attempts[i].outcome # "ok"
                   THEN "done" ELSE "sleep"]
    /\ holder' = "none"
    /\ UNCHANGED <<detectors, enabled_by_default, DESP, DCTO, XDCTO, now, fraud_cases,
                   audit_logs, next_id, active_connections, notifications, faults, runs>>

\* automatic_detection back at `await asyncio.sleep(300)`.
automatic_detection_sleep ==
    /\ task[AutoTask].pc = "process"
    /\ holder \in {"none", AutoTask}
    /\ task[AutoTask].todo = <<>>
    /\ task' = [task EXCEPT ![AutoTask].pc = "sleep"]
    /\ holder' = "none"
    /\ UNCHANGED <<detectors, enabled_by_default, DESP, DCTO, XDCTO, now, fraud_cases,
                   audit_logs, next_id, active_connections, notifications, faults, runs>>

\* ConnectionManager.connect, from the WebSocket endpoint.
connect ==
    /\ holder = "none"
    /\ active_connections < MaxConnections
    /\ active_connections' = active_connections + 1
    /\ UNCHANGED <<detectors, enabled_by_default, DESP, DCTO, XDCTO, now, fraud_cases,
                   audit_logs, next_id, notifications, task, holder, faults, runs>>

\* ConnectionManager.disconnect.
disconnect ==
    /\ holder = "none"
    /\ active_connections > 0
    /\ active_connections' = active_connections - 1
    /\ UNCHANGED <<detectors, enabled_by_default, DESP, DCTO, XDCTO, now, fraud_cases,
                   audit_logs, next_id, notifications, task, holder, faults, runs>>

\* An hour passes.  The clock is read only when a run calls the detectors,
\* so it is enough to let it advance while no coroutine is running.
Tick ==
    /\ holder = "none"
    /\ now < Clock0 + MaxTicks
    /\ now' = now + 1
    /\ UNCHANGED <<detectors, enabled_by_default, DESP, DCTO, XDCTO, fraud_cases,
                   audit_logs, next_id, active_connections, notifications, task, holder,
                   faults, runs>>

Next ==
    \/ \E t \in RequestTasks, request \in Requests : run_detection(t, request)
    \/ automatic_detection
    \/ \E t \in Tasks : persist_candidate(t)
    \/ \E t \in RequestTasks : run_detection_return(t)
    \/ automatic_detection_sleep
    \/ connect
    \/ disconnect
    \/ Tick

Spec == Init /\ [][Next]_vars

\* The statuses and case ids PATCH /api/fraud-cases/{case_id}/status is
\* called with: ids of stored cases and one id past them.
StatusInputs == {PENDING, INVESTIGATING, CONFIRMED}
CaseIdInputs == 1..next_id

\* Successful status updates so far.
UpdatesDone == Cardinality({i \in 1..Len(audit_logs) : audit_logs[i].action = "UPDATE_STATUS"})

\* The endpoint update_fraud_case_status: the Case Store update, then a
\* status_updated broadcast; 404 and nothing else for an unknown id.
update_fraud_case_status(case_id, new_status) ==
    /\ holder = "none"
    /\ UpdatesDone < MaxUpdates
    /\ fraud_cases' = db_update_fraud_case_status(fraud_cases, case_id, new_status, "analyst")
    /\ audit_logs' = db_update_audit_log(audit_logs, fraud_cases, case_id, new_status)
    /\ notifications' = IF db_update_returns(fraud_cases, case_id)
                        THEN Append(notifications, [event |-> "status_updated", case_id |-> case_id,
                                                    new_status |-> new_status, user |-> "analyst"])
                        ELSE notifications
    /\ UNCHANGED <<detectors, enabled_by_default, DESP, DCTO, XDCTO, now, next_id,
                   active_connections, task, holder, faults, runs>>

\* The driver together with the status endpoint.
NextStatus ==
    \/ Next
    \/ \E case_id \in CaseIdInputs, new_status \in StatusInputs :
          update_fraud_case_status(case_id, new_status)

\* The behaviours in which every detector is enabled and no failure is
\* injected.
InitStatus ==
    /\ detectors \in RegistryOrders
    /\ enabled_by_default = [k \in DetectorClasses |-> TRUE]
    /\ \E d \in Datasets : DESP = d.desp /\ DCTO = d.dcto /\ XDCTO = d.xdcto
    /\ now = Clock0
    /\ fraud_cases = <<>>
    /\ audit_logs = <<>>
    /\ next_id = 1
    /\ active_connections = 0
    /\ notifications = <<>>
    /\ task = [t \in Tasks |-> IdleTask(IF t = AutoTask THEN "sleep" ELSE "idle")]
    /\ holder = "none"
    /\ faults = MaxFaults
    /\ runs = 0

SpecStatus == InitStatus /\ [][NextStatus]_vars

\* The periodic task alone, on each of the heuristic inputs, with every
\* detector enabled and no failure injected.
InitHeuristics ==
    /\ detectors \in RegistryOrders
    /\ enabled_by_default = [k \in DetectorClasses |-> TRUE]
    /\ \E d \in HeuristicInputs : DESP = d.desp /\ DCTO = d.dcto /\ XDCTO = d.xdcto
    /\ now = Clock0
    /\ fraud_cases = <<>>
    /\ audit_logs = <<>>
    /\ next_id = 1
    /\ active_connections = 0
    /\ notifications = <<>>
    /\ task = [t \in Tasks |-> IdleTask(IF t = AutoTask THEN "sleep" ELSE "idle")]
    /\ holder = "none"
    /\ faults = MaxFaults
    /\ runs = 0

NextHeuristics ==
    \/ automatic_detection
    \/ persist_candidate(AutoTask)
    \/ automatic_detection_sleep
    \/ Tick

SpecHeuristics == InitHeuristics /\ [][NextHeuristics]_vars

(***************************************************************************)
(* The detectors with failing source queries.  `broken` is the set of the  *)
(* source queries that raise during one detect() call, each named after    *)
(* the method that sends it.                                               *)
(***************************************************************************)
MaxBroken == 1        \* source queries that raise in one run

SourceQueries ==
    {"montos_redondos", "descuentos_excesivos", "fuera_horario",
     "consumo_anormal", "repostajes_excesivos", "despacho_dates", "client_info",
     "cambios_masivos", "secuencias_faltantes"}

BrokenChoices == {b \in SUBSET SourceQueries : Cardinality(b) <= MaxBroken}

\* The client table: client C1 is registered, client C2 is not.
CLIE == << [COD_CLIE |-> "C1", NOM_CLIE |-> "Transportes Uno", RUC_CLIE |-> "1790000000001"] >>

\* The dict _get_client_info fills from the fetched rows.
RECURSIVE ClientDict(_)
ClientDict(rows) ==
    IF rows = <<>> THEN <<>>
    ELSE IF Last(rows).COD_CLIE # ""
         THEN DictSet(ClientDict(Front(rows)), Last(rows).COD_CLIE,
                      [nombre |-> Last(rows).NOM_CLIE, ruc |-> Last(rows).RUC_CLIE])
         ELSE ClientDict(Front(rows))

\* FuelTheftDetector._get_client_info: the except clause leaves the dict
\* empty when the query raises.
get_client_info(clie, broken) ==
    IF "client_info" \in broken THEN <<>>
    ELSE ClientDict(execute_firebird_query(clie, 5000))

\* The client_code, client_name and client_ruc create_fraud_case stores for
\* clientes.get(cod, {}): None (here "") for what the dict does not hold.
ClientFields(clientes, cod) ==
    [client_code |-> cod,
     client_name |-> IF DictHas(clientes, cod) THEN DictGet(clientes, cod).nombre ELSE "",
     client_ruc |-> IF DictHas(clientes, cod) THEN DictGet(clientes, cod).ruc ELSE ""]

\* The candidates of one create_fraud_case call with their client fields.
WithClient(found, clientes, cod) == [i \in 1..Len(found) |-> found[i] @@ ClientFields(clientes, cod)]

\* Faulty variant of _detect_consumo_anormal: a failing client query is not
\* caught in _get_client_info and ends the heuristic.
try_detect_consumo_anormal_ClientsAbort(cases, desp, clie, query_fails, broken) ==
    IF "consumo_anormal" \in broken \/ "client_info" \in broken THEN <<>>
    ELSE LET despachos == ConsumoDespachos(desp)
             clientes == get_client_info(clie, broken)
         IN  Concat([i \in 1..Len(despachos) |->
                        WithClient(ConsumoAnormalCase(cases, query_fails, despachos[i]),
                                   clientes, despachos[i].COD_CLIE)])

\* FuelTheftDetector._detect_consumo_anormal with its try/except and its
\* client lookup.
try_detect_consumo_anormal(cases, desp, clie, query_fails, broken) ==
    IF "consumo_anormal" \in broken THEN <<>>
    ELSE LET despachos == ConsumoDespachos(desp)
             clientes == get_client_info(clie, broken)
         IN  Concat([i \in 1..Len(despachos) |->
                        WithClient(ConsumoAnormalCase(cases, query_fails, despachos[i]),
                                   clientes, despachos[i].COD_CLIE)])

\* FuelTheftDetector._detect_repostajes_excesivos with its try/except, the
\* dates of _get_despacho_dates (an empty dict when that query raises) and
\* its client lookup.
try_detect_repostajes_excesivos(cases, desp, clie, clock, query_fails, broken) ==
    IF "repostajes_excesivos" \in broken \/ "despacho_dates" \in broken THEN <<>>
    ELSE LET grouped == RepostajesGrouped(desp, clock)
             keys == KeysInOrder([i \in 1..Len(grouped) |-> grouped[i].key])
             clientes == get_client_info(clie, broken)
         IN  Concat([k \in 1..Len(keys) |->
                        WithClient(RepostajesCase(cases, query_fails, grouped, keys[k]),
                                   clientes, keys[k].cliente)])

\* Faulty variant of detect(): only the try/except around the sequence of
\* heuristics exists, so the first heuristic that fails ends the sequence.
Heuristics_OuterTryOnly(broken, heuristics) ==
    LET Fails(i) == heuristics[i].query \in broken
    IN  Concat([i \in 1..Len(heuristics) |->
                   IF \E j \in 1..i : Fails(j) THEN <<>> ELSE heuristics[i].results])

\* The heuristics of one detect() in the order they are called, each inside
\* its own try/except: a heuristic whose query raises appends nothing and
\* the next one is called.
Heuristics(broken, heuristics) ==
    Concat([i \in 1..Len(heuristics) |->
               IF heuristics[i].query \in broken THEN <<>> ELSE heuristics[i].results])

\* detect() of each detector class when the queries in `broken` raise.
detect_with_broken(detector_type, cases, query_fails, broken) ==
    CASE detector_type = INVOICE_ANOMALY ->
            Heuristics(broken,
                << [query |-> "montos_redondos",
                    results |-> detect_montos_redondos(cases, DCTO, now, query_fails)],
                   [query |-> "descuentos_excesivos",
                    results |-> detect_descuentos_excesivos(cases, DCTO, now, query_fails)],
                   [query |-> "fuera_horario",
                    results |-> detect_fuera_horario(cases, DCTO, now, query_fails)] >>)
      [] detector_type = FUEL_THEFT ->
            Heuristics(broken,
                << [query |-> "consumo_anormal",
                    results |-> try_detect_consumo_anormal(cases, DESP, CLIE, query_fails, broken)],
                   [query |-> "repostajes_excesivos",
                    results |-> try_detect_repostajes_excesivos(cases, DESP, CLIE, now, query_fails, broken)] >>)
      [] detector_type = DATA_MANIPULATION ->
            Heuristics(broken,
                << [query |-> "cambios_masivos",
                    results |-> detect_cambios_masivos(cases, XDCTO, now, query_fails)],
                   [query |-> "secuencias_faltantes",
                    results |-> detect_secuencias_faltantes(cases, DCTO, now, query_fails)] >>)

\* run_all_detectors when the queries in `broken` raise: every registered
\* and enabled detector is called, none of them raises.
RECURSIVE RunAllWithBroken(_, _, _)
RunAllWithBroken(kinds, cases, broken) ==
    IF kinds = <<>> THEN [results |-> <<>>, calls |-> <<>>]
    ELSE LET acc == RunAllWithBroken(Front(kinds), cases, broken)
             detector_type == Last(kinds)
         IN  IF get_detector(detector_type) # <<>> /\ enabled_by_default[detector_type]
             THEN [results |-> DictSet(acc.results, detector_type,
                                       detect_with_broken(detector_type, cases, FALSE, broken)),
                   calls |-> Append(acc.calls, [kind |-> detector_type, raised |-> FALSE,
                                                query_failed |-> FALSE, broken |-> broken])]
             ELSE acc

\* The dates a source row may carry: native values, NULL, and texts that
\* are the invalid day 31/2/2025, Tuesday 4 February 2025 (day 36) in the
\* layouts the parser knows and in one it does not know.
DateValues ==
    { DateTime(36, 22), DateOnly(36), NullDate,
      Text("d/m/Y H:M:S", 31, 2, 2025, 9, 5, 3),
      Text("d/m/Y H:M:S", 4, 2, 2025, 9, 5, 3),
      Text("d/m/Y H:M:S", 4, 2, 2025, 22, 5, 3),
      Text("Y-m-d H:M:S.f", 4, 2, 2025, 22, 5, 3),
      Text("d/m/Y", 4, 2, 2025, 0, 0, 0),
      Text("d.m.Y H:M:S", 4, 2, 2025, 22, 5, 3) }

\* Tables in which one row carries the date `fecha`: a fifth dispatch of
\* client C1, of 250 gallons, next to four of day 36; a third round invoice
\* of client C1, discounted by more than half, next to two issued at 22:00;
\* the twenty-first edit of user U1.
DatedTables(fecha) ==
    [desp |-> SameDay(4, 36) \o << Dispatch(9, "C1", 250, 875, fecha) >>,
     dcto |-> << Document(1, 1, "C1", 600, 301, fecha),
                 Document(2, 2, "C1", 600, 0, DateTime(36, 22)),
                 Document(3, 3, "C1", 600, 0, DateTime(37, 22)) >>,
     xdcto |-> [i \in 1..21 |-> [COD_XUSUA |-> "U1",
                                 FEC_XDCTO |-> IF i = 21 THEN fecha ELSE DateTime(36, 10)]]]

\* The source databases the failing queries are applied to.
BrokenInputs ==
    { DatedTables(fecha) : fecha \in DateValues }
       \cup { [desp |-> AnomalousDESP, dcto |-> AnomalousDCTO, xdcto |-> AnomalousXDCTO] }

\* automatic_detection from the end of asyncio.sleep(300) to the start of
\* its loops, in a cycle in which the source queries in `broken` raise.
automatic_detection_with_broken ==
    /\ task[AutoTask].pc = "sleep"
    /\ holder = "none"
    /\ runs < MaxRuns
    /\ \E broken \in BrokenChoices :
          task' = [task EXCEPT ![AutoTask] =
                      AfterDetection(task[AutoTask], "all", <<>>,
                                     RunAllWithBroken(detectors, fraud_cases, broken))]
    /\ holder' = AutoTask
    /\ runs' = runs + 1
    /\ UNCHANGED <<detectors, enabled_by_default, DESP, DCTO, XDCTO, now, fraud_cases,
                   audit_logs, next_id, active_connections, notifications, faults>>

InitBroken ==
    /\ detectors \in RegistryOrders
    /\ enabled_by_default = [k \in DetectorClasses |-> TRUE]
    /\ \E d \in BrokenInputs : DESP = d.desp /\ DCTO = d.dcto /\ XDCTO = d.xdcto
    /\ now = Clock0
    /\ fraud_cases = <<>>
    /\ audit_logs = <<>>
    /\ next_id = 1
    /\ active_connections = 0
    /\ notifications = <<>>
    /\ task = [t \in Tasks |-> IdleTask(IF t = AutoTask THEN "sleep" ELSE "idle")]
    /\ holder = "none"
    /\ faults = MaxFaults
    /\ runs = 0

NextBroken ==
    \/ automatic_detection_with_broken
    \/ persist_candidate(AutoTask)
    \/ automatic_detection_sleep
    \/ Tick

\* The periodic task alone, with source queries that raise and with dates
\* of every kind in the source rows.
SpecBroken == InitBroken /\ [][NextBroken]_vars

\* The driver with every detector enabled, where failures may be injected.
InitLive ==
    /\ detectors \in RegistryOrders
    /\ enabled_by_default = [k \in DetectorClasses |-> TRUE]
    /\ \E d \in Datasets : DESP = d.desp /\ DCTO = d.dcto /\ XDCTO = d.xdcto
    /\ now = Clock0
    /\ fraud_cases = <<>>
    /\ audit_logs = <<>>
    /\ next_id = 1
    /\ active_connections = 0
    /\ notifications = <<>>
    /\ task = [t \in Tasks |-> IdleTask(IF t = AutoTask THEN "sleep" ELSE "idle")]
    /\ holder = "none"
    /\ faults = 0
    /\ runs = 0

\* The periodic task next to on-demand runs of all detectors.
NextLive ==
    \/ \E t \in RequestTasks : run_detection(t, <<>>)
    \/ automatic_detection_cycle
    \/ \E t \in Tasks : persist_candidate(t)
    \/ \E t \in RequestTasks : run_detection_return(t)
    \/ automatic_detection_sleep

\* The event loop runs a coroutine that is ready: a coroutine inside its
\* loops goes on to its next candidate and to its end, and the periodic
\* task, whose sleep always ends, is run again whenever the loop is free
\* (the ready queue of asyncio is first in, first out).
\* The states where automatic_detection_cycle is enabled: the task sleeps
\* and the loop is free (a run without failures is always among the
\* choices of FaultChoices).
CycleReady == task[AutoTask].pc = "sleep" /\ holder = "none"

\* SF_vars(automatic_detection_cycle), with the action's enabling condition
\* written as the state predicate CycleReady.
TimerFires == <>[](~CycleReady) \/ []<><<automatic_detection_cycle>>_vars

Fairness ==
    /\ \A t \in Tasks : WF_vars(persist_candidate(t))
    /\ \A t \in RequestTasks : WF_vars(run_detection_return(t))
    /\ WF_vars(automatic_detection_sleep)
    /\ TimerFires

SpecLive == InitLive /\ [][NextLive]_vars /\ Fairness

(***************************************************************************)
(* Properties.                                                             *)
(***************************************************************************)
Triple(c) == <<c.source_table, c.source_record_id, c.detector_type>>

\* The create_fraud_case calls of a task's current or last run that stored
\* a case.
Stored(t) == SelectSeq(task[t].attempts, LAMBDA a : a.outcome # "commit_raises")

\* A run is in progress: its detectors have been invoked and it has not
\* processed its last candidate yet.
InProgress(t) == task[t].pc = "process" /\ task[t].todo # <<>>

\* C1: no two persisted fraud cases share the same (source_table,
\* source_record_id, detector_type) triple.
C1_UniqueTriples ==
    \A i, j \in 1..Len(fraud_cases) :
        i # j => Triple(fraud_cases[i]) # Triple(fraud_cases[j])

\* C3: with no failure injected, it never happens that two runs both passed
\* the duplicate check for one triple and both inserted a case for it.
C3_CheckAndInsertAtomic ==
    faults = 0 =>
        \A t1, t2 \in Tasks :
            t1 # t2 =>
                \A i \in 1..Len(Stored(t1)), j \in 1..Len(Stored(t2)) :
                    Triple(Stored(t1)[i].fraud_data) # Triple(Stored(t2)[j].fraud_data)

\* A run has just started: its detectors have been invoked and it has made
\* no create_fraud_case call yet.
JustStarted(t) == task[t].pc = "process" /\ task[t].attempts = <<>>

\* C4: the periodic run and an on-demand run are mutually exclusive: while
\* one run is in progress no other run starts or is in progress.
C4_MutualExclusion ==
    \A t1, t2 \in Tasks :
        t1 # t2 => ~(InProgress(t1) /\ (JustStarted(t2) \/ InProgress(t2)))

\* fraud_cases after every candidate of `candidates` was persisted.
RECURSIVE PersistAll(_, _)
PersistAll(cases, candidates) ==
    IF candidates = <<>> THEN cases
    ELSE LET before == PersistAll(cases, Front(candidates))
         IN  db_create_fraud_case(before, Last(candidates), Len(before) + 1, "ok")

ExpectedEntry(call, cases) ==
    IF call.raised THEN <<>> ELSE detect(call.kind, cases, call.query_failed)

\* A step in which task t calls the factory.
Detects(t) == task[t].pc # "process" /\ task'[t].pc = "process"

\* C5: registry isolation.  When run_all_detectors is called, whichever
\* detectors raise in detect(), every enabled detector is called, a raising
\* one is mapped to an empty list and every other one to the candidates its
\* own detect() returns.
C5_RegistryIsolation ==
    [][\A t \in Tasks :
          (Detects(t) /\ task'[t].mode = "all") =>
             \A i \in 1..Len(detectors) :
                enabled_by_default[detectors[i]] =>
                   /\ DictHas(task'[t].detection_results, detectors[i])
                   /\ \E c \in 1..Len(task'[t].calls) :
                         /\ task'[t].calls[c].kind = detectors[i]
                         /\ DictGet(task'[t].detection_results, detectors[i])
                               = ExpectedEntry(task'[t].calls[c], fraud_cases)]_vars

\* A run_all_detectors run in which one detector raised and another one,
\* called after it, returned candidates.
C5_Witness ==
    \E t \in Tasks :
        /\ task[t].mode = "all"
        /\ \E i, j \in 1..Len(task[t].calls) :
              /\ i < j
              /\ task[t].calls[i].raised
              /\ DictGet(task[t].detection_results, task[t].calls[i].kind) = <<>>
              /\ DictGet(task[t].detection_results, task[t].calls[j].kind) # <<>>

\* How often detect() of a kind was called in a run.
CallCount(calls, kind) == Cardinality({i \in 1..Len(calls) : calls[i].kind = kind})

\* C6: run_all_detectors calls detect() exactly once on every registered
\* detector whose enabled_by_default is true, never on a disabled one, and
\* its result has exactly one entry per detector it called.
C6_RunAllEnabledOnce ==
    \A t \in Tasks :
        task[t].mode = "all" =>
            /\ \A k \in DetectorClasses :
                  CallCount(task[t].calls, k) = IF enabled_by_default[k] THEN 1 ELSE 0
            /\ DictKeys(task[t].detection_results)
                  = [i \in 1..Len(task[t].calls) |-> task[t].calls[i].kind]

\* A run_all_detectors run with a disabled detector registered.
C6_Witness ==
    \E t \in Tasks :
        /\ task[t].mode = "all"
        /\ \E k \in DetectorClasses : ~enabled_by_default[k]
        /\ Len(task[t].detection_results) = 2

\* How often a kind stands in a requested list.
Occurrences(list, kind) == Cardinality({i \in 1..Len(list) : list[i] = kind})

\* C7: run_specific_detectors skips every requested kind that is not
\* registered, giving it no entry, and calls detect() for every requested
\* kind that is registered, giving it an entry (an empty list if detect()
\* raised), wherever the unknown kinds stand in the list.
C7_RunSpecificSkipsUnknown ==
    \A t \in RequestTasks :
        task[t].mode = "specific" =>
            LET list == task[t].requested[1]
            IN  \A i \in 1..Len(list) :
                   IF get_detector(list[i]) = <<>>
                   THEN /\ ~DictHas(task[t].detection_results, list[i])
                        /\ CallCount(task[t].calls, list[i]) = 0
                   ELSE /\ DictHas(task[t].detection_results, list[i])
                        /\ CallCount(task[t].calls, list[i]) = Occurrences(list, list[i])
                        /\ (\E c \in 1..Len(task[t].calls) :
                               task[t].calls[c].kind = list[i] /\ task[t].calls[c].raised)
                              => DictGet(task[t].detection_results, list[i]) = <<>>

\* A run_specific_detectors run asked for an unknown kind first and a
\* registered kind after it, which returned candidates.
C7_Witness ==
    \E t \in RequestTasks :
        /\ task[t].mode = "specific"
        /\ Len(task[t].requested[1]) = 2
        /\ task[t].requested[1][1] = UnknownKind
        /\ DictHas(task[t].detection_results, task[t].requested[1][2])
        /\ DictGet(task[t].detection_results, task[t].requested[1][2]) # <<>>

\* A request names an unknown detector kind.
NamesUnknown(request) ==
    /\ request # <<>>
    /\ \E i \in 1..Len(request[1]) : get_detector(request[1][i]) = <<>>

\* A response of a run that succeeded and found nothing.
FoundNothing(response) == response.success /\ response.cases_detected = 0

\* C8: the caller of run_detection can tell a request that named an unknown
\* detector kind from a successful run that found nothing: the two never
\* get the same response.
C8_UnknownKindSurfaced ==
    \A t \in RequestTasks :
        (task[t].response # <<>> /\ task[t].previous # <<>>) =>
            LET last == [requested |-> task[t].requested, response |-> task[t].response[1]]
                prev == task[t].previous[1]
            IN  \A a, b \in {last, prev} :
                   (/\ NamesUnknown(a.requested)
                    /\ ~NamesUnknown(b.requested)
                    /\ FoundNothing(b.response)) => a.response # b.response

\* The candidates of a run in the order the driver's loops visit them.
Candidates(t) ==
    LET all == Flatten(task[t].detection_results)
    IN  [i \in 1..Len(all) |-> all[i].fraud_data]

\* The candidates a run has called db_context.create_fraud_case for.
Attempted(t) == [i \in 1..Len(task[t].attempts) |-> task[t].attempts[i].fraud_data]

\* A run is over: the coroutine has left its loops.
RunOver(t) == task[t].mode # "none" /\ task[t].pc # "process"

\* C9: a failure of db_context.create_fraud_case for one candidate never
\* stops a run: when the run is over, create_fraud_case was called once for
\* every candidate of every detector, in order, whatever calls failed.
C9_PersistFailureIsolated ==
    \A t \in Tasks :
        /\ RunOver(t) => Attempted(t) = Candidates(t)
        /\ task[t].pc = "process" =>
              Attempted(t) \o [i \in 1..Len(task[t].todo) |-> task[t].todo[i].fraud_data]
                 = Candidates(t)

\* A finished run in which create_fraud_case failed for a candidate and was
\* called for a later candidate.
C9_Witness ==
    \E t \in Tasks :
        /\ RunOver(t)
        /\ \E i, j \in 1..Len(task[t].attempts) :
              /\ i < j
              /\ task[t].attempts[i].outcome # "ok"
              /\ task[t].attempts[j].outcome = "ok"

\* Task t calls db_context.create_fraud_case in this step.
Attempts(t) == Len(task'[t].attempts) = Len(task[t].attempts) + 1

\* C10: a broadcast is made for a candidate if and only if its
\* create_fraud_case call returned a case, it names that case, and the case
\* is in the store when the broadcast is made.
C10_NotifyIffPersisted ==
    [][/\ \A t \in Tasks :
             Attempts(t) =>
                LET a == Last(task'[t].attempts)
                IN  IF a.outcome = "ok"
                    THEN /\ Len(notifications') = Len(notifications) + 1
                         /\ Last(notifications').case_id = a.case_id
                         /\ Last(notifications').detector_type = a.detector
                         /\ \E i \in 1..Len(fraud_cases') :
                               /\ fraud_cases'[i].id = a.case_id
                               /\ Triple(fraud_cases'[i]) = Triple(a.fraud_data)
                    ELSE notifications' = notifications
       /\ notifications' # notifications => \E t \in Tasks : Attempts(t)]_vars

\* A run made a broadcast for one candidate and none for another one, whose
\* create_fraud_case call had failed.
C10_Witness ==
    \E t \in Tasks :
        /\ \E i \in 1..Len(task[t].attempts) : task[t].attempts[i].outcome # "ok"
        /\ \E i \in 1..Len(task[t].attempts), n \in 1..Len(notifications) :
              /\ task[t].attempts[i].outcome = "ok"
              /\ notifications[n].case_id = task[t].attempts[i].case_id
        /\ Len(notifications) = Cardinality({i \in 1..Len(task[t].attempts) :
                                               task[t].attempts[i].outcome = "ok"})

\* C11: duplicate discard.  Whenever a run calls the detectors, no candidate
\* they return has the (source_table, source_record_id, detector_type) of a
\* case the Case Store holds at that moment.
C11_DuplicateDiscard ==
    [][\A t \in Tasks :
          Detects(t) =>
             \A i \in 1..Len(task'[t].todo) :
                ~\E j \in 1..Len(fraud_cases) :
                    Triple(fraud_cases[j]) = Triple(task'[t].todo[i].fraud_data)]_vars

\* C12: db_context.create_fraud_case refuses duplicates.  A call with a
\* candidate whose triple is stored already returns no case and leaves
\* fraud_cases as it was.
C12_CreateRefusesDuplicates ==
    [][\A t \in Tasks :
          Attempts(t) =>
             LET a == Last(task'[t].attempts)
             IN  (\E j \in 1..Len(fraud_cases) : Triple(fraud_cases[j]) = Triple(a.fraud_data))
                    => /\ fraud_cases' = fraud_cases
                       /\ task'[t].all_results = task[t].all_results]_vars

\* The step is a successful update_fraud_case_status call on a case id.
UpdatesStatusOf(case_id) ==
    /\ Len(audit_logs') = Len(audit_logs) + 1
    /\ Last(audit_logs').action = "UPDATE_STATUS"
    /\ Last(audit_logs').fraud_case_id = case_id

\* C13: detection never changes existing cases.  A case is PENDING when it
\* is created; no step other than an update_fraud_case_status call on a case
\* changes any field of it or removes it; and a case whose status is not
\* PENDING has an UPDATE_STATUS audit entry.
C13_DetectionLeavesCasesUnchanged ==
    /\ [](\A i \in 1..Len(fraud_cases) :
            fraud_cases[i].status # PENDING =>
               \E l \in 1..Len(audit_logs) :
                  /\ audit_logs[l].action = "UPDATE_STATUS"
                  /\ audit_logs[l].fraud_case_id = fraud_cases[i].id)
    /\ [][/\ Len(fraud_cases') >= Len(fraud_cases)
          /\ \A i \in 1..Len(fraud_cases) :
                fraud_cases'[i] # fraud_cases[i] => UpdatesStatusOf(fraud_cases[i].id)
          /\ \A i \in (Len(fraud_cases) + 1)..Len(fraud_cases') :
                fraud_cases'[i].status = PENDING]_vars

\* A case was confirmed by a status update, a run stored another case after
\* that, and the confirmed case still has the status it was given.
C13_Witness ==
    \E i, j \in 1..Len(fraud_cases), l, m \in 1..Len(audit_logs) :
        /\ fraud_cases[i].status = CONFIRMED
        /\ audit_logs[l].action = "UPDATE_STATUS"
        /\ audit_logs[l].fraud_case_id = fraud_cases[i].id
        /\ audit_logs[m].action = "CREATE_FRAUD_CASE"
        /\ audit_logs[m].fraud_case_id = fraud_cases[j].id
        /\ l < m
        /\ fraud_cases[j].status = PENDING

\* The candidates of a list that name one source record.
About(results, source_table, source_record_id) ==
    SelectSeq(results, LAMBDA c : c.source_table = source_table /\ c.source_record_id = source_record_id)

\* The Case Store holds a case for a triple.
HasCase(source_table, source_record_id, detector_type) ==
    \E j \in 1..Len(fraud_cases) :
        Triple(fraud_cases[j]) = <<source_table, source_record_id, detector_type>>

\* C14: overcapacity heuristic.  Every dispatch of more than 200 without an
\* existing case yields exactly one candidate, HIGH above 300 and MEDIUM
\* otherwise, with confidence 85; a dispatch of 200 or less yields none;
\* whatever the number of dispatch rows.
C14_Overcapacity ==
    LET results == detect_consumo_anormal(fraud_cases, DESP, FALSE)
    IN  \A i \in 1..Len(DESP) :
           LET cantidad == DESP[i].CAN_DESP[1]
               found == About(results, "DESP", ToString(DESP[i].NUM_DESP))
           IN  /\ (DecGt(cantidad, 200) /\ ~HasCase("DESP", ToString(DESP[i].NUM_DESP), FUEL_THEFT))
                     => /\ Len(found) = 1
                        /\ found[1].severity = IF DecGt(cantidad, 300) THEN HIGH ELSE MEDIUM
                        /\ found[1].confidence_score = 85
               /\ ~DecGt(cantidad, 200) => Len(found) = 0

\* The identifier _detect_cambios_masivos gives the group of a (user, day)
\* key with count edits.
MassiveGroupId(key, count) ==
    "MASSIVE_" \o key.usuario \o "_" \o IsoDate(key.dia) \o "_" \o ToString(count)

\* C15: massive-changes heuristic.  Every (user, calendar day) of the last 7
\* days with more than 20 edits and no existing case yields exactly one
\* candidate of detect(), HIGH above 50 edits and MEDIUM otherwise, with
\* confidence 80; a (user, day) with 20 or fewer edits yields none.
C15_MassiveChanges ==
    LET results == DataManipulationDetector_detect(fraud_cases, XDCTO, DCTO, now, FALSE)
        all == CambiosKeys(XDCTO, now)
        keys == KeysInOrder(all)
    IN  \A k \in 1..Len(keys) :
           LET count == Cardinality({i \in 1..Len(all) : all[i] = keys[k]})
               group_id == MassiveGroupId(keys[k], count)
               found == About(results, "XDCTO", group_id)
           IN  /\ (count > 20 /\ ~HasCase("XDCTO", group_id, DATA_MANIPULATION))
                     => /\ Len(found) = 1
                        /\ found[1].severity = IF count > 50 THEN HIGH ELSE MEDIUM
                        /\ found[1].confidence_score = 80
               /\ count <= 20 => Len(found) = 0

\* A NUMERIC value in hundredths.
Cents(x) == x.units * 100 + x.cents

\* The invoices the query of _detect_descuentos_excesivos selects.
DiscountedInvoices ==
    {i \in 1..Len(DCTO) :
        /\ DCTO[i].TIP_DCTO \in {"FC", "FV"}
        /\ InLast30Days(DCTO[i], now)
        /\ DCTO[i].DSC_DCTO # <<>> /\ DCTO[i].TNI_DCTO # <<>>
        /\ Cents(DCTO[i].DSC_DCTO[1]) > 0 /\ Cents(DCTO[i].TNI_DCTO[1]) > 0}

\* C16: excessive-discount heuristic.  An invoice with positive discount d
\* and positive net n, without an existing case, yields exactly one
\* candidate if and only if d / n is strictly greater than 30%; the candidate
\* is HIGH if d / n > 50% and MEDIUM otherwise, has confidence 85 and the
\* invoice's own identifier as source_record_id.
C16_ExcessiveDiscount ==
    LET results == detect_descuentos_excesivos(fraud_cases, DCTO, now, FALSE)
    IN  \A i \in DiscountedInvoices :
           LET d == Cents(DCTO[i].DSC_DCTO[1])
               n == Cents(DCTO[i].TNI_DCTO[1])
               found == About(results, "DCTO", ToString(DCTO[i].SEC_DCTO))
           IN  ~HasCase("DCTO", ToString(DCTO[i].SEC_DCTO), INVOICE_ANOMALY)
                  => /\ Len(found) = IF d * 100 > 30 * n THEN 1 ELSE 0
                     /\ Len(found) = 1
                           => /\ found[1].severity = IF d * 100 > 50 * n THEN HIGH ELSE MEDIUM
                              /\ found[1].confidence_score = 85

\* The exact total of an invoice in hundredths: net + tax-exempt + tax.
ExactTotal(f) ==
    LET Part(v) == IF v = <<>> THEN 0 ELSE Cents(v[1])
    IN  Part(f.TNI_DCTO) + Part(f.TSI_DCTO) + Part(f.IVA_DCTO)

\* The invoices of a client that the query of _detect_montos_redondos
\* selects and whose exact total is above 500 and a multiple of 100.
RoundInvoices(cliente) ==
    {i \in 1..Len(DCTO) :
        /\ DCTO[i].TIP_DCTO \in {"FC", "FV"}
        /\ InLast30Days(DCTO[i], now)
        /\ DCTO[i].TNI_DCTO # <<>>
        /\ DCTO[i].COD_CLIE = cliente
        /\ ExactTotal(DCTO[i]) > 500 * 100
        /\ ExactTotal(DCTO[i]) % (100 * 100) = 0}

\* The identifiers a group of a client may have, one per group size.
GroupIds(prefix, cliente) ==
    {prefix \o StrOf(cliente) \o "_" \o ToString(k) : k \in 1..Len(DCTO)}

\* C17: round-amount heuristic.  An invoice counts as round if and only if
\* its total (net + tax-exempt + tax) is strictly greater than 500 and an
\* exact multiple of 100; a client without an existing case yields exactly
\* one candidate if and only if it has at least 3 round invoices in the
\* window, MEDIUM below 5 invoices and HIGH otherwise, with confidence 75.
C17_RoundAmounts ==
    LET results == detect_montos_redondos(fraud_cases, DCTO, now, FALSE)
    IN  \A cliente \in {DCTO[i].COD_CLIE : i \in 1..Len(DCTO)} :
           LET count == Cardinality(RoundInvoices(cliente))
               ids == GroupIds("ROUND_", cliente)
               found == SelectSeq(results, LAMBDA c : c.source_table = "DCTO" /\ c.source_record_id \in ids)
           IN  (\A id \in ids : ~HasCase("DCTO", id, INVOICE_ANOMALY))
                  => /\ Len(found) = IF count >= 3 THEN 1 ELSE 0
                     /\ Len(found) = 1
                           => /\ found[1].severity = IF count < 5 THEN MEDIUM ELSE HIGH
                              /\ found[1].confidence_score = 75

\* The invoices of a client that the query of _detect_fuera_horario selects
\* and whose timestamp is before 7:00, from 21:00, or on a Saturday or Sunday
\* (day 0 is a Monday).
AfterHoursInvoices(client) ==
    {i \in 1..Len(DCTO) :
        /\ DCTO[i].TIP_DCTO \in {"FC", "FV", "EB"}
        /\ InLast30Days(DCTO[i], now)
        /\ DCTO[i].COD_CLIE = client
        /\ \/ DCTO[i].FEC_DCTO.ts % 24 < 7
           \/ DCTO[i].FEC_DCTO.ts % 24 > 20
           \/ (DCTO[i].FEC_DCTO.ts \div 24) % 7 \in {5, 6}}

DispatchGroup(cliente, dia) ==
    {i \in 1..Len(DESP) :
        /\ DESP[i].COD_CLIE = cliente
        /\ DESP[i].FEC_DESP.tag = "datetime"
        /\ DESP[i].FEC_DESP.ts >= now - 7 * 24
        /\ DESP[i].FEC_DESP.ts \div 24 = dia}

\* The summed value of a set of dispatches, in hundredths.
GroupValue(group) ==
    SumSeq([i \in 1..Len(DESP) |-> IF i \in group /\ DESP[i].VTO_DESP # <<>> THEN Cents(DESP[i].VTO_DESP[1]) ELSE 0])

\* C19: same-day-dispatch heuristic.  For every (client, calendar day) of
\* the last 7 days with more than 3 dispatches and no existing case,
\* detect() returns exactly one candidate, whose amount is the summed value
\* of the dispatches of the group, HIGH above 5 dispatches and MEDIUM
\* otherwise, with confidence 90; a (client, day) with 3 or fewer dispatches
\* yields none.
C19_SameDayDispatches ==
    LET results == FuelTheftDetector_detect(fraud_cases, DESP, now, FALSE)
    IN  \A cliente \in {DESP[i].COD_CLIE : i \in 1..Len(DESP)} \ {""}, dia \in 0..DateOf(now) :
           LET group == DispatchGroup(cliente, dia)
               count == Cardinality(group)
               prefix == "MULTIPLE_" \o cliente \o "_" \o IsoDate(dia) \o "_"
               found == About(results, "DESP", prefix \o ToString(count))
               total == GroupValue(group)
           IN  /\ (count > 3 /\ ~HasCase("DESP", prefix \o ToString(count), FUEL_THEFT))
                     => /\ Len(found) = 1
                        /\ found[1].severity = IF count > 5 THEN HIGH ELSE MEDIUM
                        /\ found[1].confidence_score = 90
                        /\ found[1].amount = <<FloatOfDec(Dec(total \div 100, total % 100))>>
               /\ \A k \in 1..Len(DESP) :
                     (count <= 3 \/ k # count) => Len(About(results, "DESP", prefix \o ToString(k))) = 0

\* The periodic run stored the HIGH case of six dispatches of one client on
\* one day, and the next run returned nothing for the group.
C19_Witness ==
    /\ \E dia \in 0..DateOf(now) : Cardinality(DispatchGroup("C1", dia)) = 6
    /\ \E i \in 1..Len(fraud_cases) :
          /\ fraud_cases[i].source_table = "DESP"
          /\ fraud_cases[i].detector_type = FUEL_THEFT
          /\ fraud_cases[i].severity = HIGH
          /\ fraud_cases[i].amount = <<FloatOfInt(621)>>
    /\ task[AutoTask].mode = "all"
    /\ DictGet(task[AutoTask].detection_results, FUEL_THEFT) = <<>>

\* The numeric suffixes (last runs of digits) of the document numbers of one
\* type among the documents the query of _detect_secuencias_faltantes selects.
SuffixNumbers(tipo) ==
    LET Tracked(doc) == /\ doc.TIP_DCTO = tipo
                        /\ tipo \in {"FC", "FV"}
                        /\ InLast30Days(doc, now)
                        /\ doc.NUM_DCTO # <<>>
        docs == SelectSeq(DCTO, Tracked)
    IN  [i \in 1..Len(docs) |-> Last(docs[i].NUM_DCTO)]

\* C20: sequence-gap heuristic.  For each tracked document type the numeric
\* suffixes of the document numbers are sorted and their consecutive
\* differences computed; the type, without an existing case, yields exactly
\* one candidate if and only if at least 2 differences exceed 10, MEDIUM if
\* the sum of those gaps is below 50 and HIGH otherwise, with confidence 70.
C20_SequenceGaps ==
    LET results == detect_secuencias_faltantes(fraud_cases, DCTO, now, FALSE)
    IN  \A tipo \in {DCTO[i].TIP_DCTO : i \in 1..Len(DCTO)} \cap {"FC", "FV"} :
           LET gaps == SequenceGaps(SuffixNumbers(tipo))
               total_gap == SumSeq(gaps)
               found == SelectSeq(results, LAMBDA c : c.source_table = "DCTO" /\ c.rule = "secuencia_faltante")
           IN  ~HasCase("DCTO", "GAPS_" \o tipo \o "_" \o ToString(total_gap), DATA_MANIPULATION)
                  => /\ Len(found) = IF Len(gaps) >= 2 THEN 1 ELSE 0
                     /\ Len(found) = 1
                           => /\ found[1].source_record_id = "GAPS_" \o tipo \o "_" \o ToString(total_gap)
                              /\ found[1].severity = IF total_gap < 50 THEN MEDIUM ELSE HIGH
                              /\ found[1].confidence_score = 70

\* C27: the duplicate check fails open.  When the Case Store query of
\* check_existing_case fails during a detect() call that does not raise, the
\* call returns every candidate it returns against an empty Case Store,
\* those with a matching persisted case included.
C27_CheckFailsOpen ==
    [][\A t \in Tasks :
          Detects(t) =>
             \A c \in 1..Len(task'[t].calls) :
                (task'[t].calls[c].query_failed /\ ~task'[t].calls[c].raised) =>
                   DictGet(task'[t].detection_results, task'[t].calls[c].kind)
                      = detect(task'[t].calls[c].kind, <<>>, FALSE)]_vars

\* A run has just called a detector whose Case Store query failed, and the
\* detector returned a candidate for which a case is stored.
C27_Witness ==
    \E t \in Tasks :
        /\ JustStarted(t)
        /\ \E c \in 1..Len(task[t].calls) :
              /\ task[t].calls[c].query_failed
              /\ \E i \in 1..Len(DictGet(task[t].detection_results, task[t].calls[c].kind)) :
                    LET candidate == DictGet(task[t].detection_results, task[t].calls[c].kind)[i]
                    IN  HasCase(candidate.source_table, candidate.source_record_id,
                                candidate.detector_type)

\* C29: update_fraud_case_status.  For a case id no stored case has, the
\* call returns false, writes no audit entry and changes no case.  For the
\* id of a stored case it returns true, appends exactly one UPDATE_STATUS
\* audit entry with the old and the requested status, sets the stored status
\* of that case to the requested one and leaves every other case alone.
C29_StatusUpdate ==
    \A case_id \in CaseIdInputs, new_status \in StatusInputs :
        LET cases_after == db_update_fraud_case_status(fraud_cases, case_id, new_status, "analyst")
            logs_after == db_update_audit_log(audit_logs, fraud_cases, case_id, new_status)
            returned == db_update_returns(fraud_cases, case_id)
            hits == {i \in 1..Len(fraud_cases) : fraud_cases[i].id = case_id}
        IN  IF hits = {}
            THEN ~returned /\ logs_after = audit_logs /\ cases_after = fraud_cases
            ELSE /\ returned
                 /\ Len(logs_after) = Len(audit_logs) + 1
                 /\ SubSeq(logs_after, 1, Len(audit_logs)) = audit_logs
                 /\ Last(logs_after).action = "UPDATE_STATUS"
                 /\ Last(logs_after).fraud_case_id = case_id
                 /\ \A i \in hits :
                       /\ Last(logs_after).old_status = fraud_cases[i].status
                       /\ cases_after[i].status = new_status
                 /\ Last(logs_after).new_status = new_status
                 /\ Len(cases_after) = Len(fraud_cases)
                 /\ \A i \in 1..Len(fraud_cases) : i \notin hits => cases_after[i] = fraud_cases[i]

\* The endpoint was called for a stored case: the audit trail ends with an
\* UPDATE_STATUS entry from PENDING to INVESTIGATING for a case that is now
\* INVESTIGATING, and the update was broadcast.
C29_Witness ==
    /\ audit_logs # <<>>
    /\ Last(audit_logs).action = "UPDATE_STATUS"
    /\ Last(audit_logs).old_status = PENDING
    /\ Last(audit_logs).new_status = INVESTIGATING
    /\ \E i \in 1..Len(fraud_cases) :
          fraud_cases[i].id = Last(audit_logs).fraud_case_id /\ fraud_cases[i].status = INVESTIGATING
    /\ \E n \in 1..Len(notifications) : notifications[n].event = "status_updated"

Reverse(rows) == [i \in 1..Len(rows) |-> rows[Len(rows) + 1 - i]]

\* The number of round invoices of a client that rows hold at a given time,
\* and the source_record_id of the candidates _detect_montos_redondos
\* derives from them for the client against an empty Case Store.
RoundGroup(rows, clock, cliente) ==
    With(Tuple(MontosRedondos(rows, clock), Len(MontosRedondos(rows, clock))), LAMBDA redondas :
        With(MontosRedondosCase(<<>>, FALSE, redondas, cliente), LAMBDA found :
            [count |-> Len(SelectSeq(redondas, LAMBDA f : f.COD_CLIE = cliente)),
             keys |-> {found[i].source_record_id : i \in 1..Len(found)}]))

\* C25: the round-amount group key depends on the client and the count
\* only.  Whatever the invoices, their order and the time of the run, two
\* computations that find the same number of round invoices for the same
\* client produce the same group key, and that key names the client and the
\* count.
C25_RoundKeyDeterministic ==
    \A cliente \in {DCTO[i].COD_CLIE : i \in 1..Len(DCTO)} :
       With(RoundGroup(DCTO, now, cliente), LAMBDA here :
          here.count >= 3 =>
             /\ here.keys = {"ROUND_" \o StrOf(cliente) \o "_" \o ToString(here.count)}
             /\ \A other \in {DCTO, Reverse(DCTO)} \cup (IF DCTO \in RedondosInputs THEN RedondosInputs ELSE {}) :
                   \A clock \in {now, now + 24, now + 7 * 24} :
                      With(RoundGroup(other, clock, cliente), LAMBDA there :
                         there.count = here.count => there.keys = here.keys))

\* The periodic run stored the round-amount case of client C1 with four
\* invoices, found in rows whose reversal is a different sequence.
C25_Witness ==
    /\ Reverse(DCTO) # DCTO
    /\ RoundGroup(DCTO, now, "C1").count = 4
    /\ RoundGroup(Reverse(DCTO), now + 24, "C1").count = 4
    /\ \E i \in 1..Len(fraud_cases) :
          Triple(fraud_cases[i]) = <<"DCTO", "ROUND_C1_4", INVOICE_ANOMALY>>

\* The source row is dated inside the last `days` days.
DatedWithin(fecha, days) == fecha.tag = "datetime" /\ fecha.ts >= (DateOf(now) - days) * 24

\* C23: lookback window.  Every candidate detect() returns comes from source
\* records dated inside the lookback window: an overcapacity candidate from
\* a dispatch of the last 30 days, a discount candidate from an invoice of
\* the last 30 days, and a same-day-dispatch candidate counts exactly the
\* dispatches of its client and day dated inside the last 7 days.
C23_LookbackWindow ==
    /\ \A i \in 1..Len(DESP) :
          About(detect_consumo_anormal(fraud_cases, DESP, FALSE), "DESP", ToString(DESP[i].NUM_DESP)) # <<>>
             => \E j \in 1..Len(DESP) :
                   DESP[j].NUM_DESP = DESP[i].NUM_DESP /\ DatedWithin(DESP[j].FEC_DESP, 30)
    /\ \A i \in 1..Len(DCTO) :
          About(detect_descuentos_excesivos(fraud_cases, DCTO, now, FALSE), "DCTO", ToString(DCTO[i].SEC_DCTO)) # <<>>
             => \E j \in 1..Len(DCTO) :
                   DCTO[j].SEC_DCTO = DCTO[i].SEC_DCTO /\ DatedWithin(DCTO[j].FEC_DCTO, 30)
    /\ With(detect_repostajes_excesivos(fraud_cases, DESP, now, FALSE), LAMBDA results :
          \A r \in 1..Len(results) :
             \E cliente \in {DESP[i].COD_CLIE : i \in 1..Len(DESP)}, dia \in 0..DateOf(now) :
                results[r].source_record_id
                   = "MULTIPLE_" \o cliente \o "_" \o IsoDate(dia) \o "_"
                        \o ToString(Cardinality(DispatchGroup(cliente, dia))))

\* C26: within one detect() call of any detector, no two candidates have the
\* same (source_table, source_record_id, detector_type).
C26_DistinctWithinRun ==
    \A k \in DetectorClasses :
       With(detect(k, fraud_cases, FALSE), LAMBDA results :
          \A i, j \in 1..Len(results) : i # j => Triple(results[i]) # Triple(results[j]))

\* A candidate without its client fields.
Plain(c) ==
    [detector_type |-> c.detector_type, severity |-> c.severity, amount |-> c.amount,
     source_table |-> c.source_table, source_record_id |-> c.source_record_id,
     confidence_score |-> c.confidence_score, rule |-> c.rule]

\* What one heuristic contributes when it is run alone and its query
\* answers.
Alone(query, cases) ==
    CASE query = "montos_redondos" -> detect_montos_redondos(cases, DCTO, now, FALSE)
      [] query = "descuentos_excesivos" -> detect_descuentos_excesivos(cases, DCTO, now, FALSE)
      [] query = "fuera_horario" -> detect_fuera_horario(cases, DCTO, now, FALSE)
      [] query = "consumo_anormal" -> detect_consumo_anormal(cases, DESP, FALSE)
      [] query = "repostajes_excesivos" -> detect_repostajes_excesivos(cases, DESP, now, FALSE)
      [] query = "cambios_masivos" -> <<>>
      [] query = "secuencias_faltantes" -> detect_secuencias_faltantes(cases, DCTO, now, FALSE)

\* The heuristics of a detector in the order detect() calls them.
HeuristicsOf(detector_type) ==
    CASE detector_type = INVOICE_ANOMALY -> <<"montos_redondos", "descuentos_excesivos", "fuera_horario">>
      [] detector_type = FUEL_THEFT -> <<"consumo_anormal", "repostajes_excesivos">>
      [] detector_type = DATA_MANIPULATION -> <<"cambios_masivos", "secuencias_faltantes">>

\* C22: heuristic isolation inside a detector.  In a run in which the
\* source query of a heuristic raises, or in which _detect_cambios_masivos
\* raises while it handles a group, detect() of every detector returns, in
\* the order of its heuristics, nothing for the failed heuristic and for
\* every other heuristic, called before or after it, what that heuristic
\* returns alone.
C22_HeuristicIsolation ==
    [][Detects(AutoTask) =>
          \A c \in 1..Len(task'[AutoTask].calls) :
             LET call == task'[AutoTask].calls[c]
                 got == DictGet(task'[AutoTask].detection_results, call.kind)
                 hs == HeuristicsOf(call.kind)
             IN  call.broken \cap {"despacho_dates", "client_info"} = {}
                    => [i \in 1..Len(got) |-> Plain(got[i])]
                          = Concat([h \in 1..Len(hs) |->
                                       IF hs[h] \in call.broken THEN <<>>
                                       ELSE Alone(hs[h], fraud_cases)])]_vars

\* A run in which the query of the discount heuristic raised while the
\* table held an invoice discounted by more than 30%: the invoice detector
\* returned the round-amount candidate found before and the after-hours
\* candidate found after the failed heuristic, and no discount candidate.
C22_Witness ==
    /\ JustStarted(AutoTask)
    /\ \E c \in 1..Len(task[AutoTask].calls) :
          /\ task[AutoTask].calls[c].kind = INVOICE_ANOMALY
          /\ task[AutoTask].calls[c].broken = {"descuentos_excesivos"}
    /\ detect_descuentos_excesivos(fraud_cases, DCTO, now, FALSE) # <<>>
    /\ LET got == DictGet(task[AutoTask].detection_results, INVOICE_ANOMALY)
       IN  /\ Len(got) = 2
           /\ got[1].rule = "montos_redondos"
           /\ got[2].rule = "fuera_horario"

\* C24: client-lookup failure degrades.  In a run in which the client-table
\* query of FuelTheftDetector raises, detect() returns every candidate the
\* two fuel heuristics return when nothing fails, each with client name and
\* tax id unknown; in a run in which no query raises, the candidates of a
\* registered client carry its name and tax id.
C24_ClientLookupDegrades ==
    [][Detects(AutoTask) =>
          \A c \in 1..Len(task'[AutoTask].calls) :
             LET call == task'[AutoTask].calls[c]
                 got == DictGet(task'[AutoTask].detection_results, call.kind)
             IN  call.kind = FUEL_THEFT =>
                    /\ call.broken = {"client_info"} =>
                          /\ [i \in 1..Len(got) |-> Plain(got[i])]
                                = FuelTheftDetector_detect(fraud_cases, DESP, now, FALSE)
                          /\ \A i \in 1..Len(got) :
                                got[i].client_name = "" /\ got[i].client_ruc = ""
                    /\ call.broken = {} =>
                          \A i \in 1..Len(got), r \in 1..Len(CLIE) :
                             got[i].client_code = CLIE[r].COD_CLIE
                                => /\ got[i].client_name = CLIE[r].NOM_CLIE
                                   /\ got[i].client_ruc = CLIE[r].RUC_CLIE]_vars

\* A run in which the client-table query raised: the fuel detector returned
\* an overcapacity candidate and a same-day-dispatch candidate of the
\* registered client C1, both without client name.
C24_Witness ==
    /\ JustStarted(AutoTask)
    /\ \E c \in 1..Len(task[AutoTask].calls) :
          /\ task[AutoTask].calls[c].kind = FUEL_THEFT
          /\ task[AutoTask].calls[c].broken = {"client_info"}
    /\ \E r \in 1..Len(CLIE) : CLIE[r].COD_CLIE = "C1"
    /\ LET got == DictGet(task[AutoTask].detection_results, FUEL_THEFT)
       IN  \E i, j \in 1..Len(got) :
              /\ got[i].rule = "consumo_excesivo" /\ got[j].rule = "repostajes_multiples"
              /\ got[i].client_code = "C1" /\ got[j].client_code = "C1"
              /\ got[i].client_name = "" /\ got[j].client_name = ""

\* The rows of a table without row i, and with another date in row i.
Without(rows, i) == SubSeq(rows, 1, i - 1) \o SubSeq(rows, i + 1, Len(rows))

\* A date that is a text parse_firebird_date turns into None.
Unparseable(date_value) == date_value.tag = "text" /\ parse_firebird_date(date_value) = <<>>

\* The date-dependent heuristics ignore a record whose date cannot be
\* parsed: same-day dispatch groups, same-day edit groups and after-hours
\* groups are what they are without the record.
C21_LeftOutOfDateHeuristics ==
    /\ \A i \in 1..Len(DESP) :
          Unparseable(DESP[i].FEC_DESP)
             => detect_repostajes_excesivos(fraud_cases, DESP, now, FALSE)
                   = detect_repostajes_excesivos(fraud_cases, Without(DESP, i), now, FALSE)
    /\ \A i \in 1..Len(XDCTO) :
          Unparseable(XDCTO[i].FEC_XDCTO)
             => CambiosKeys(XDCTO, now) = CambiosKeys(Without(XDCTO, i), now)
    /\ \A i \in 1..Len(DCTO) :
          Unparseable(DCTO[i].FEC_DCTO)
             => detect_fuera_horario(fraud_cases, DCTO, now, FALSE)
                   = detect_fuera_horario(fraud_cases, Without(DCTO, i), now, FALSE)

\* The date-independent heuristics count a record whose date cannot be
\* parsed as they count it with a well-formed date of four days ago.
C21_CountedByOtherHeuristics ==
    /\ \A i \in 1..Len(DESP) :
          Unparseable(DESP[i].FEC_DESP)
             => detect_consumo_anormal(fraud_cases, DESP, FALSE)
                   = detect_consumo_anormal(fraud_cases, [DESP EXCEPT ![i].FEC_DESP = DateTime(36, 10)], FALSE)
    /\ \A i \in 1..Len(DCTO) :
          Unparseable(DCTO[i].FEC_DCTO)
             => /\ detect_montos_redondos(fraud_cases, DCTO, now, FALSE)
                      = detect_montos_redondos(fraud_cases, [DCTO EXCEPT ![i].FEC_DCTO = DateTime(36, 10)], now, FALSE)
                /\ detect_descuentos_excesivos(fraud_cases, DCTO, now, FALSE)
                      = detect_descuentos_excesivos(fraud_cases, [DCTO EXCEPT ![i].FEC_DCTO = DateTime(36, 10)], now, FALSE)

C30_LoopNeverStops ==
    /\ (task[AutoTask].pc = "process") ~> (task[AutoTask].pc = "sleep")
    /\ (task[AutoTask].pc = "sleep") ~> (task[AutoTask].pc = "process")

\* The periodic task has started a cycle without failures after the one
\* failure of the behaviour was met in an earlier cycle of its own.
C30_Witness ==
    /\ JustStarted(AutoTask)
    /\ runs = MaxRuns
    /\ faults = MaxFaults
    /\ \A t \in RequestTasks : task[t].mode = "none"
    /\ \A i \in 1..Len(task[AutoTask].calls) :
          ~task[AutoTask].calls[i].raised /\ ~task[AutoTask].calls[i].query_failed

====
